---------------------------- MODULE Spec2Model ----------------------------
(***************************************************************************)
(* A model of the batch pipelines of the tracking-data experiments:        *)
(*                                                                         *)
(*   - scripts/add_defender_tracking.py : find_nearest_defender, the loop  *)
(*     over the targeted plays that emits one separation record per play   *)
(*     it can process;                                                     *)
(*   - experiments/exp_002_safeties_vs_cornerbacks/scripts/                *)
(*     engineer_features.py : the feature stages applied to the frame      *)
(*     table (spatial, kinematic, directional, temporal), the play-level   *)
(*     aggregation, and calculate_angular_difference on its own.           *)
(*                                                                         *)
(* Tables are sequences of records (one record per row, in row order).     *)
(* Coordinates are integers drawn from point sets whose mutual distances   *)
(* are integers, so that np.sqrt is exact and is modelled exactly.         *)
(* A missing value (NaN) of a numeric column is the value NaN below.       *)
(***************************************************************************)
EXTENDS Integers, Sequences, FiniteSets, TLC

VARIABLES
    tracking_df,   \* find_nearest_defender: the tracking table (rows in order)
    supp_df,       \* find_nearest_defender: the supplementary table
    idx,           \* find_nearest_defender: number of targeted plays consumed by the loop
    results,       \* find_nearest_defender: the list of records appended so far
    outcomes,      \* history: for each consumed targeted play, the branch the loop body took
    sep_done,      \* find_nearest_defender has returned pd.DataFrame(results)
    df,            \* engineer_features: the frame table (rows in order)
    config,        \* engineer_features: the configuration passed to every stage
    stages,        \* engineer_features: the stages applied to df so far, in order
    play_level_df, \* engineer_features: the table create_play_level_dataset returned
    angle1,        \* calculate_angular_difference: the first argument (a vector of angles)
    angle2,        \* calculate_angular_difference: the second argument
    angular_difference, \* calculate_angular_difference: the value returned, <<>> before the call
    merged_file,   \* engineer_features main: the merged tracking file, [exists, rows]
    error_log,     \* engineer_features main: the exceptions passed to logger.error
    raised,        \* engineer_features main: the exception main re-raised, "" when none
    saved,         \* engineer_features main: the tables save_engineered_data has written
    input_df,      \* validators: the DataFrame given, [columns (in order), rows (in order)]
    arguments,     \* validators: the other arguments of the calls
    missing,       \* validators: <<the Series check_missing_values returned>>, <<>> before the call
    validation     \* validators: <<the dict validate_data returned>>, <<>> before the call

sepVars == <<tracking_df, supp_df, idx, results, outcomes, sep_done>>

angVars == <<angle1, angle2, angular_difference>>

mainVars == <<merged_file, error_log, raised, saved>>

valVars == <<input_df, arguments, missing, validation>>

featVars == <<df, config, stages, play_level_df, angVars, mainVars, valVars>>

vars == <<tracking_df, supp_df, idx, results, outcomes, sep_done,
          df, config, stages, play_level_df,
          angle1, angle2, angular_difference,
          merged_file, error_log, raised, saved,
          input_df, arguments, missing, validation>>

-----------------------------------------------------------------------------
(* Bounds of the model *)

\* frame_id ranges over 1..MaxFrame
MaxFrame == 3

\* the supplementary table of the multi-play inputs has at most MaxSupp rows
MaxSupp == 2

-----------------------------------------------------------------------------
(* Values *)

\* np.nan in a numeric column
NaN == 0 - 1000000

isnan(v) == v = NaN

\* a null (NaN / None) cell of the route_of_targeted_receiver column
NA == "<NA>"

notna(v) == v # NA

SetMax(S) == CHOOSE m \in S : \A v \in S : v <= m

SetMin(S) == CHOOSE m \in S : \A v \in S : m <= v

\* np.sqrt on the perfect squares the inputs produce (exact in floating point)
Sqrt(n) == CHOOSE r \in 0..n : r * r = n

\* the set of values of a sequence
Range(seq) == {seq[i] : i \in 1..Len(seq)}

\* Series.unique(): the distinct values in order of first appearance
RECURSIVE unique(_)
unique(seq) ==
    IF seq = <<>> THEN <<>>
    ELSE LET front == unique(SubSeq(seq, 1, Len(seq) - 1))
             v == seq[Len(seq)]
         IN IF v \in Range(front) THEN front ELSE Append(front, v)

\* insertion of a row into a sequence sorted by frame_id, after the rows with
\* the same or a smaller frame_id
RECURSIVE InsertByFrame(_, _)
InsertByFrame(sorted, r) ==
    IF sorted = <<>> THEN <<r>>
    ELSE IF sorted[Len(sorted)].frame_id <= r.frame_id THEN Append(sorted, r)
         ELSE Append(InsertByFrame(SubSeq(sorted, 1, Len(sorted) - 1), r),
                     sorted[Len(sorted)])

\* DataFrame.sort_values('frame_id')
RECURSIVE sort_values_frame_id(_)
sort_values_frame_id(rows) ==
    IF rows = <<>> THEN <<>>
    ELSE InsertByFrame(sort_values_frame_id(SubSeq(rows, 1, Len(rows) - 1)),
                       rows[Len(rows)])

-----------------------------------------------------------------------------
(* scripts/add_defender_tracking.py : find_nearest_defender *)

\* np.sqrt((x2 - x1)**2 + (y2 - y1)**2)
Distance(x1, y1, x2, y2) ==
    Sqrt((x2 - x1) * (x2 - x1) + (y2 - y1) * (y2 - y1))

\* the positions kept as candidate receivers
EligiblePositions == {"WR", "TE", "RB", "FB"}

\* a variant of targeted_plays that keeps the rows with an empty designation
targeted_plays_notna(supp) ==
    SelectSeq(supp, LAMBDA r : notna(r.route_of_targeted_receiver))

\* the rows of the supplementary table with a route designation, in row order
targeted_plays(supp) ==
    SelectSeq(supp, LAMBDA r : notna(r.route_of_targeted_receiver)
                               /\ r.route_of_targeted_receiver # "")

\* a variant of play_data that matches rows on play_id alone
play_data_by_play_id(tracking, game_id, play_id) ==
    SelectSeq(tracking, LAMBDA r : r.play_id = play_id)

\* this play's tracking rows
play_data(tracking, game_id, play_id) ==
    SelectSeq(tracking, LAMBDA r : r.game_id = game_id /\ r.play_id = play_id)

throw_frame_id(pd) == SetMax({pd[i].frame_id : i \in 1..Len(pd)})

snap_frame_id(pd) == SetMin({pd[i].frame_id : i \in 1..Len(pd)})

throw_frame(pd) == SelectSeq(pd, LAMBDA r : r.frame_id = throw_frame_id(pd))

snap_frame(pd) == SelectSeq(pd, LAMBDA r : r.frame_id = snap_frame_id(pd))

offensive_players(pd) == SelectSeq(pd, LAMBDA r : r.player_side = "Offense")

\* one offensive player's rows, ascending by frame_id
player_frames(off, nfl_id) ==
    sort_values_frame_id(SelectSeq(off, LAMBDA r : r.nfl_id = nfl_id))

\* a variant of displacement_entry without the two-row requirement
displacement_entry_any(off, nfl_id) ==
    LET pf == player_frames(off, nfl_id)
        first == pf[1]
        last == pf[Len(pf)]
    IN IF first.player_position \in EligiblePositions
       THEN << [nfl_id |-> nfl_id,
                displacement |-> Distance(first.x, first.y, last.x, last.y),
                position |-> first.player_position] >>
       ELSE <<>>

\* the entry appended to player_displacements for one player, as a sequence of
\* zero or one entries
displacement_entry(off, nfl_id) ==
    LET pf == player_frames(off, nfl_id)
    IN IF Len(pf) < 2 THEN <<>>
       ELSE LET first == pf[1]
                last == pf[Len(pf)]
                displacement == Distance(first.x, first.y, last.x, last.y)
                position == first.player_position
            IN IF position \in EligiblePositions
               THEN << [nfl_id |-> nfl_id, displacement |-> displacement,
                        position |-> position] >>
               ELSE <<>>

RECURSIVE displacement_entries(_, _)
displacement_entries(off, ids) ==
    IF ids = <<>> THEN <<>>
    ELSE displacement_entries(off, SubSeq(ids, 1, Len(ids) - 1))
         \o displacement_entry(off, ids[Len(ids)])

\* the list built by the loop over offensive_players['nfl_id'].unique()
player_displacements(off) ==
    displacement_entries(off, unique([i \in 1..Len(off) |-> off[i].nfl_id]))

\* a variant of target_player that takes the last entry of maximal key
target_player_last(pdisp) ==
    LET m == SetMax({pdisp[i].displacement : i \in 1..Len(pdisp)})
        k == SetMax({i \in 1..Len(pdisp) : pdisp[i].displacement = m})
    IN pdisp[k]

\* a variant of target_player that takes the first candidate whatever its key
target_player_first(pdisp) == pdisp[1]

\* max(player_displacements, key=displacement): the first entry of maximal key
target_player(pdisp) ==
    LET m == SetMax({pdisp[i].displacement : i \in 1..Len(pdisp)})
        k == SetMin({i \in 1..Len(pdisp) : pdisp[i].displacement = m})
    IN pdisp[k]

\* a frame's Defense rows with their distance to a point
defenders_with_distance(frame, rx, ry) ==
    LET d == SelectSeq(frame, LAMBDA r : r.player_side = "Defense")
    IN [i \in 1..Len(d) |->
            [nfl_id |-> d[i].nfl_id, player_position |-> d[i].player_position,
             distance_to_receiver |-> Distance(d[i].x, d[i].y, rx, ry)]]

\* a variant of nearest_defender that takes the first row whatever its distance
nearest_defender_first(dd) == dd[1]

\* Series.idxmin(): the first row of minimal distance
nearest_defender(dd) ==
    LET m == SetMin({dd[i].distance_to_receiver : i \in 1..Len(dd)})
        k == SetMin({i \in 1..Len(dd) : dd[i].distance_to_receiver = m})
    IN dd[k]

\* a variant of defenders_within with a strict comparison
defenders_within_strict(dd, radius) ==
    Cardinality({i \in 1..Len(dd) : dd[i].distance_to_receiver < radius})

\* (defenders['distance_to_receiver'] <= radius).sum()
defenders_within(dd, radius) ==
    Cardinality({i \in 1..Len(dd) : dd[i].distance_to_receiver <= radius})

\* a variant of coverage_cushion_of that gives 0 without a defender at the snap
coverage_cushion_of_zero(snap, target_nfl_id) ==
    LET receiver_snap == SelectSeq(snap, LAMBDA r : r.nfl_id = target_nfl_id)
    IN IF Len(receiver_snap) = 0 THEN NaN
       ELSE LET dd == defenders_with_distance(snap, receiver_snap[1].x,
                                                    receiver_snap[1].y)
            IN IF Len(dd) > 0
               THEN SetMin({dd[i].distance_to_receiver : i \in 1..Len(dd)})
               ELSE 0

\* coverage_cushion: the separation at the snap frame, NaN without the
\* receiver or without a defender at the snap frame
coverage_cushion_of(snap, target_nfl_id) ==
    LET receiver_snap == SelectSeq(snap, LAMBDA r : r.nfl_id = target_nfl_id)
    IN IF Len(receiver_snap) = 0 THEN NaN
       ELSE LET dd == defenders_with_distance(snap, receiver_snap[1].x,
                                                    receiver_snap[1].y)
            IN IF Len(dd) > 0
               THEN SetMin({dd[i].distance_to_receiver : i \in 1..Len(dd)})
               ELSE NaN

\* a variant of separation_change_of with the difference reversed
separation_change_of_reversed(separation_at_throw, coverage_cushion) ==
    IF isnan(coverage_cushion) THEN NaN
    ELSE coverage_cushion - separation_at_throw

\* separation_change = separation_at_throw - coverage_cushion
separation_change_of(separation_at_throw, coverage_cushion) ==
    IF isnan(coverage_cushion) THEN NaN
    ELSE separation_at_throw - coverage_cushion

\* the record appended for a play whose receiver and defenders are at the throw frame
separation_record(pd, game_id, play_id, route) ==
    LET target == target_player(player_displacements(offensive_players(pd)))
        receiver_throw ==
            SelectSeq(throw_frame(pd), LAMBDA r : r.nfl_id = target.nfl_id)[1]
        dd == defenders_with_distance(throw_frame(pd), receiver_throw.x,
                                      receiver_throw.y)
        nearest == nearest_defender(dd)
        cushion == coverage_cushion_of(snap_frame(pd), target.nfl_id)
    IN [game_id |-> game_id,
        play_id |-> play_id,
        route |-> route,
        receiver_nfl_id |-> target.nfl_id,
        receiver_position |-> target.position,
        receiver_x |-> receiver_throw.x,
        receiver_y |-> receiver_throw.y,
        nearest_defender_id |-> nearest.nfl_id,
        nearest_defender_position |-> nearest.player_position,
        separation_at_throw |-> nearest.distance_to_receiver,
        coverage_cushion |-> cushion,
        separation_change |->
            separation_change_of(nearest.distance_to_receiver, cushion),
        defenders_within_3yd |-> defenders_within(dd, 3),
        defenders_within_5yd |-> defenders_within(dd, 5),
        throw_frame_id |-> throw_frame_id(pd)]

\* the branch the loop body takes for one play: the `continue` it leaves by,
\* or "record" when it reaches results.append
play_branch(pd) ==
    IF Len(pd) = 0 THEN "no_rows"
    ELSE IF Len(offensive_players(pd)) = 0 THEN "no_offense"
    ELSE LET pdisp == player_displacements(offensive_players(pd))
         IN IF Len(pdisp) = 0 THEN "no_displacement"
            ELSE LET target == target_player(pdisp)
                 IN IF Len(SelectSeq(throw_frame(pd),
                                     LAMBDA r : r.nfl_id = target.nfl_id)) = 0
                    THEN "no_receiver_at_throw"
                    ELSE IF Len(SelectSeq(throw_frame(pd),
                                    LAMBDA r : r.player_side = "Defense")) = 0
                         THEN "no_defenders_at_throw"
                         ELSE "record"

\* the records appended while the loop consumes a list of targeted plays
RECURSIVE records_of(_, _)
records_of(tracking, targeted) ==
    IF targeted = <<>> THEN <<>>
    ELSE LET t == targeted[Len(targeted)]
             pd == play_data(tracking, t.game_id, t.play_id)
             before == records_of(tracking, SubSeq(targeted, 1, Len(targeted) - 1))
         IN IF play_branch(pd) = "record"
            THEN Append(before,
                        separation_record(pd, t.game_id, t.play_id,
                                          t.route_of_targeted_receiver))
            ELSE before

\* the value find_nearest_defender(tracking_df, supp_df) returns
find_nearest_defender(tracking, supp) ==
    records_of(tracking, targeted_plays(supp))

\* the targeted play the loop is about to process
current_play == targeted_plays(supp_df)[idx + 1]

current_play_data ==
    play_data(tracking_df, current_play.game_id, current_play.play_id)

LoopRunning == ~sep_done /\ idx < Len(targeted_plays(supp_df))

\* if len(play_data) == 0: continue
SkipNoRows ==
    /\ LoopRunning
    /\ play_branch(current_play_data) = "no_rows"
    /\ idx' = idx + 1
    /\ outcomes' = Append(outcomes, "no_rows")
    /\ UNCHANGED <<tracking_df, supp_df, results, sep_done>>
    /\ UNCHANGED featVars

\* if len(offensive_players) == 0: continue
SkipNoOffense ==
    /\ LoopRunning
    /\ play_branch(current_play_data) = "no_offense"
    /\ idx' = idx + 1
    /\ outcomes' = Append(outcomes, "no_offense")
    /\ UNCHANGED <<tracking_df, supp_df, results, sep_done>>
    /\ UNCHANGED featVars

\* if len(player_displacements) == 0: continue
SkipNoDisplacement ==
    /\ LoopRunning
    /\ play_branch(current_play_data) = "no_displacement"
    /\ idx' = idx + 1
    /\ outcomes' = Append(outcomes, "no_displacement")
    /\ UNCHANGED <<tracking_df, supp_df, results, sep_done>>
    /\ UNCHANGED featVars

\* if len(receiver_throw) == 0: continue
SkipNoReceiverAtThrow ==
    /\ LoopRunning
    /\ play_branch(current_play_data) = "no_receiver_at_throw"
    /\ idx' = idx + 1
    /\ outcomes' = Append(outcomes, "no_receiver_at_throw")
    /\ UNCHANGED <<tracking_df, supp_df, results, sep_done>>
    /\ UNCHANGED featVars

\* if len(defenders_throw) == 0: continue
SkipNoDefendersAtThrow ==
    /\ LoopRunning
    /\ play_branch(current_play_data) = "no_defenders_at_throw"
    /\ idx' = idx + 1
    /\ outcomes' = Append(outcomes, "no_defenders_at_throw")
    /\ UNCHANGED <<tracking_df, supp_df, results, sep_done>>
    /\ UNCHANGED featVars

\* one iteration that reaches results.append
EmitRecord ==
    /\ LoopRunning
    /\ play_branch(current_play_data) = "record"
    /\ results' = Append(results,
                         separation_record(current_play_data,
                                           current_play.game_id,
                                           current_play.play_id,
                                           current_play.route_of_targeted_receiver))
    /\ idx' = idx + 1
    /\ outcomes' = Append(outcomes, "record")
    /\ UNCHANGED <<tracking_df, supp_df, sep_done>>
    /\ UNCHANGED featVars

\* return pd.DataFrame(results)
ReturnResults ==
    /\ ~sep_done
    /\ idx = Len(targeted_plays(supp_df))
    /\ sep_done' = TRUE
    /\ UNCHANGED <<tracking_df, supp_df, idx, results, outcomes>>
    /\ UNCHANGED featVars

-----------------------------------------------------------------------------
(* Inputs of find_nearest_defender *)

\* field positions: the centre and the four corners of a rhombus whose
\* mutual distances are 3, 4, 5, 6 and 8
Pt == << <<3, 4>>, <<0, 4>>, <<6, 4>>, <<3, 0>>, <<3, 8>> >>

Frames == 1..MaxFrame

\* a player's frames: none (<<>>) or every frame of an interval <<first, last>>
Intervals == {<<a, b>> : a \in Frames, b \in Frames} \cap
             {iv \in Frames \X Frames : iv[1] <= iv[2]}

FullInterval == <<1, MaxFrame>>

\* a player stands at `start` in frame 1 and at `end` in every later frame
PlayerRows(game_id, play_id, nfl_id, side, position, iv, start, end) ==
    IF iv = <<>> THEN <<>>
    ELSE [k \in 1..(iv[2] - iv[1] + 1) |->
            LET f == iv[1] + k - 1
                at == IF f = 1 THEN Pt[start] ELSE Pt[end]
            IN [game_id |-> game_id, play_id |-> play_id, nfl_id |-> nfl_id,
                frame_id |-> f, x |-> at[1], y |-> at[2],
                player_side |-> side, player_position |-> position]]

Reverse(seq) == [i \in 1..Len(seq) |-> seq[Len(seq) + 1 - i]]

\* the tracking rows of one play: a wide receiver 11, a running back 12, a
\* third offensive player 13 (quarterback or fullback), a cornerback 21 and a
\* free safety 22
PlayRows(game_id, play_id, par) ==
    LET rows ==
            PlayerRows(game_id, play_id, 11, "Offense", "WR", par.w, 2, par.wEnd)
            \o PlayerRows(game_id, play_id, 12, "Offense", "RB", par.r, 1, par.rEnd)
            \o PlayerRows(game_id, play_id, 13, "Offense", par.qPos, par.q, 4, 5)
            \o PlayerRows(game_id, play_id, 21, "Defense", "CB", par.d1,
                          par.d1Start, par.d1End)
            \o PlayerRows(game_id, play_id, 22, "Defense", "FS", par.d2, 5, 2)
    IN IF par.rev THEN Reverse(rows) ELSE rows

PlayParams ==
    [w : {<<>>} \cup Intervals, wEnd : {2, 1, 3},
     r : {<<>>, FullInterval, <<MaxFrame, MaxFrame>>}, rEnd : {1, 2},
     q : {<<>>, FullInterval}, qPos : {"QB", "FB"},
     d1 : {<<>>} \cup Intervals, d1Start : {1, 5}, d1End : {4, 5},
     d2 : {<<>>, FullInterval}, rev : BOOLEAN]

\* an absent player's position parameters are fixed, so that each table is
\* described once
Canonical(par) ==
    /\ par.w = <<>> => par.wEnd = 2
    /\ par.r = <<>> => par.rEnd = 1
    /\ par.q = <<>> => par.qPos = "QB"
    /\ par.d1 = <<>> => par.d1Start = 1 /\ par.d1End = 4

NoPlay ==
    [w |-> <<>>, wEnd |-> 2, r |-> <<>>, rEnd |-> 1, q |-> <<>>, qPos |-> "QB",
     d1 |-> <<>>, d1Start |-> 1, d1End |-> 4, d2 |-> <<>>, rev |-> FALSE]

\* a small library of plays for the inputs with several plays: no rows, a
\* well-formed play, defenders only, a receiver gone before the throw, two
\* receivers with equal displacement
GoodPlay == [NoPlay EXCEPT !.w = FullInterval, !.wEnd = 1, !.d1 = FullInterval,
                           !.d2 = FullInterval]

DefendersOnly == [NoPlay EXCEPT !.d1 = FullInterval, !.d2 = FullInterval]

ReceiverGone == [NoPlay EXCEPT !.w = <<1, 2>>, !.wEnd = 3,
                               !.d1 = <<MaxFrame, MaxFrame>>]

TiedPlay == [NoPlay EXCEPT !.w = FullInterval, !.wEnd = 1, !.r = FullInterval,
                           !.rEnd = 2, !.d2 = FullInterval, !.rev = TRUE]

PlayLibrary == {NoPlay, GoodPlay, DefendersOnly, ReceiverGone, TiedPlay}

\* the plays: two of the same game, and one of another game with a play_id
\* of the first game
PlayKeys == {<<1, 1>>, <<1, 2>>, <<2, 1>>}

SuppRow(key, route) ==
    [game_id |-> key[1], play_id |-> key[2], route_of_targeted_receiver |-> route]

\* the route designation a play has when it has one
RouteOf(key) == IF key[1] = 1 THEN "GO" ELSE "SLANT"

SuppRows ==
    UNION {{SuppRow(key, route) : route \in {RouteOf(key), "", NA}} : key \in PlayKeys}

\* the sequences over S of length at most n
RECURSIVE SeqsUpTo(_, _)
SeqsUpTo(S, n) ==
    IF n = 0 THEN {<<>>}
    ELSE LET shorter == SeqsUpTo(S, n - 1)
         IN shorter \cup {Append(q, e) : q \in shorter, e \in S}

\* one play with any tracking rows, targeted by one supplementary row
InitOnePlay ==
    /\ \E par \in PlayParams :
          /\ Canonical(par)
          /\ tracking_df = PlayRows(1, 1, par)
    /\ supp_df = <<SuppRow(<<1, 1>>, "GO")>>

\* several plays from the library, in either table order, with any
\* supplementary table
InitPlays ==
    /\ \E a \in PlayLibrary, b \in {NoPlay, GoodPlay, DefendersOnly},
          c \in {NoPlay, GoodPlay}, ba \in BOOLEAN :
          tracking_df = IF ba
                        THEN PlayRows(2, 1, c) \o PlayRows(1, 2, b) \o PlayRows(1, 1, a)
                        ELSE PlayRows(1, 1, a) \o PlayRows(1, 2, b) \o PlayRows(2, 1, c)
    /\ supp_df \in SeqsUpTo(SuppRows, MaxSupp)

Init ==
    /\ InitOnePlay \/ InitPlays
    /\ idx = 0
    /\ results = <<>>
    /\ outcomes = <<>>
    /\ sep_done = FALSE
    /\ df = <<>>
    /\ config = <<>>
    /\ stages = <<>>
    /\ play_level_df = <<>>
    /\ angle1 = <<>>
    /\ angle2 = <<>>
    /\ angular_difference = <<>>
    /\ merged_file = [exists |-> FALSE, rows |-> <<>>]
    /\ error_log = <<>>
    /\ raised = ""
    /\ saved = <<>>
    /\ input_df = [columns |-> <<>>, rows |-> <<>>]
    /\ arguments = <<>>
    /\ missing = <<>>
    /\ validation = <<>>

Next ==
    \/ SkipNoRows
    \/ SkipNoOffense
    \/ SkipNoDisplacement
    \/ SkipNoReceiverAtThrow
    \/ SkipNoDefendersAtThrow
    \/ EmitRecord
    \/ ReturnResults

Spec == Init /\ [][Next]_vars

-----------------------------------------------------------------------------
(* The words of the claims about find_nearest_defender, stated on the      *)
(* input tables as sets of rows                                            *)

\* the tracking rows of a play
RowsOfPlay(game_id, play_id) ==
    {r \in Range(tracking_df) : r.game_id = game_id /\ r.play_id = play_id}

LastFrameOf(S) == SetMax({r.frame_id : r \in S})

FirstFrameOf(S) == SetMin({r.frame_id : r \in S})

RowsOfPlayer(S, nfl_id) == {r \in S : r.nfl_id = nfl_id}

\* the squared straight-line displacement of a player between its row of
\* least frame_id and its row of greatest frame_id
DisplacementSq(S, nfl_id) ==
    LET mine == RowsOfPlayer(S, nfl_id)
        a == CHOOSE r \in mine : r.frame_id = FirstFrameOf(mine)
        b == CHOOSE r \in mine : r.frame_id = LastFrameOf(mine)
    IN (b.x - a.x) * (b.x - a.x) + (b.y - a.y) * (b.y - a.y)

\* the Offense-side players of an allow-listed position
SkillPlayers(S) ==
    {r.nfl_id : r \in {q \in S : /\ q.player_side = "Offense"
                                 /\ q.player_position \in {"WR", "TE", "RB", "FB"}}}

\* the Defense-side rows at a frame
DefenseAt(S, f) == {r \in S : r.player_side = "Defense" /\ r.frame_id = f}

SqDistTo(r, x, y) == (r.x - x) * (r.x - x) + (r.y - y) * (r.y - y)

\* the position of a player at a frame
RowAt(S, nfl_id, f) == CHOOSE r \in S : r.nfl_id = nfl_id /\ r.frame_id = f

HasRowAt(S, nfl_id, f) == \E r \in S : r.nfl_id = nfl_id /\ r.frame_id = f

RecordPlay(rec) == RowsOfPlay(rec.game_id, rec.play_id)

\* C1: the receiver of every record is an Offense-side player of an
\* allow-listed position (WR, TE, RB, FB) whose first-to-last displacement is
\* at least that of every other allow-listed Offense-side player of the play.
C1_ReceiverHasMaxDisplacement ==
    \A i \in 1..Len(results) :
        LET rec == results[i]
            S == RecordPlay(rec)
        IN /\ rec.receiver_nfl_id \in SkillPlayers(S)
           /\ rec.receiver_position \in {"WR", "TE", "RB", "FB"}
           /\ \A o \in SkillPlayers(S) :
                 DisplacementSq(S, rec.receiver_nfl_id) >= DisplacementSq(S, o)

\* a record whose receiver is the wide receiver, chosen over a running back
\* that moved less and over a quarterback that moved more
C1_Witness ==
    \E i \in 1..Len(results) :
        LET rec == results[i]
            S == RecordPlay(rec)
        IN /\ rec.receiver_nfl_id = 11
           /\ 12 \in SkillPlayers(S)
           /\ 0 < DisplacementSq(S, 12)
           /\ DisplacementSq(S, 12) < DisplacementSq(S, 11)
           /\ \E q \in S : /\ q.nfl_id = 13 /\ q.player_position = "QB"
                           /\ DisplacementSq(S, 13) > DisplacementSq(S, 11)

\* the throw-frame values of a record: separation and the two counts
ThrowValuesRight(rec) ==
    LET S == RecordPlay(rec)
        f == LastFrameOf(S)
        at == RowAt(S, rec.receiver_nfl_id, f)
        D == DefenseAt(S, f)
    IN /\ HasRowAt(S, rec.receiver_nfl_id, f)
       /\ rec.receiver_x = at.x /\ rec.receiver_y = at.y
       /\ D # {}
       /\ rec.separation_at_throw >= 0
       /\ rec.separation_at_throw * rec.separation_at_throw
             = SetMin({SqDistTo(d, at.x, at.y) : d \in D})
       /\ rec.defenders_within_3yd
             = Cardinality({d \in D : SqDistTo(d, at.x, at.y) <= 9})
       /\ rec.defenders_within_5yd
             = Cardinality({d \in D : SqDistTo(d, at.x, at.y) <= 25})

\* C2: separation_at_throw is the least distance from a Defense-side row of
\* the play's last frame to the receiver's position at that frame, and
\* defenders_within_3yd / _5yd count those rows at distance <= 3 / <= 5.
C2_SeparationAtThrow ==
    \A i \in 1..Len(results) : ThrowValuesRight(results[i])

\* a record of a play with exactly one defender at the throw frame, at
\* distance exactly 3: separation 3 and both counts 1
C2_Witness ==
    \E i \in 1..Len(results) :
        LET rec == results[i]
            S == RecordPlay(rec)
        IN /\ Cardinality(DefenseAt(S, LastFrameOf(S))) = 1
           /\ rec.separation_at_throw = 3
           /\ rec.defenders_within_3yd = 1
           /\ rec.defenders_within_5yd = 1

\* C3: the result holds at most one record per (game_id, play_id).
C3_OneRecordPerPlay ==
    \A i, j \in 1..Len(results) :
        (results[i].game_id = results[j].game_id
            /\ results[i].play_id = results[j].play_id) => i = j

\* the play the loop processed at its k-th iteration
ProcessedPlay(k) ==
    LET t == targeted_plays(supp_df)[k] IN RowsOfPlay(t.game_id, t.play_id)

\* the allow-listed Offense-side players of greatest displacement
FarthestSkillPlayers(S) ==
    {p \in SkillPlayers(S) :
        \A o \in SkillPlayers(S) : DisplacementSq(S, p) >= DisplacementSq(S, o)}

\* C4 as stated: a targeted play with tracking rows is dropped exactly when
\* it has no offensive skill-position player, no row of the selected receiver
\* at its last frame, or no Defense-side row at its last frame.
C4_DroppedExactlyWhenStated ==
    \A k \in 1..Len(outcomes) :
        LET S == ProcessedPlay(k)
        IN S # {} =>
            (outcomes[k] # "record" <=>
                \/ SkillPlayers(S) = {}
                \/ \E p \in FarthestSkillPlayers(S) : ~HasRowAt(S, p, LastFrameOf(S))
                \/ DefenseAt(S, LastFrameOf(S)) = {})

\* the allow-listed Offense-side players with at least two rows
MovingSkillPlayers(S) ==
    {p \in SkillPlayers(S) : Cardinality(RowsOfPlayer(S, p)) >= 2}

\* the position in the tracking table of a player's first row of a play
FirstRowIndex(game_id, play_id, nfl_id) ==
    SetMin({i \in 1..Len(tracking_df) :
                /\ tracking_df[i].game_id = game_id
                /\ tracking_df[i].play_id = play_id
                /\ tracking_df[i].nfl_id = nfl_id})

\* the selected receiver: among the allow-listed Offense-side players with at
\* least two rows and greatest displacement, the one met first in the table
SelectedReceiver(game_id, play_id) ==
    LET S == RowsOfPlay(game_id, play_id)
        best == {p \in MovingSkillPlayers(S) :
                    \A o \in MovingSkillPlayers(S) :
                        DisplacementSq(S, p) >= DisplacementSq(S, o)}
    IN CHOOSE p \in best :
          \A o \in best : FirstRowIndex(game_id, play_id, p)
                            <= FirstRowIndex(game_id, play_id, o)

\* C4 (amended): a targeted play with tracking rows is dropped exactly when
\* it has no offensive skill-position player with at least two rows, no row
\* of the selected receiver at its last frame, or no Defense-side row at its
\* last frame.
C4_DroppedExactlyWhen ==
    \A k \in 1..Len(outcomes) :
        LET t == targeted_plays(supp_df)[k]
            S == ProcessedPlay(k)
        IN S # {} =>
            (outcomes[k] # "record" <=>
                \/ MovingSkillPlayers(S) = {}
                \/ ~HasRowAt(S, SelectedReceiver(t.game_id, t.play_id), LastFrameOf(S))
                \/ DefenseAt(S, LastFrameOf(S)) = {})

\* a play dropped although it has a skill-position player and a defender at
\* its last frame: the skill-position players have one row each
C4_Witness ==
    \E k \in 1..Len(outcomes) :
        LET S == ProcessedPlay(k)
        IN /\ S # {}
           /\ outcomes[k] # "record"
           /\ SkillPlayers(S) # {}
           /\ MovingSkillPlayers(S) = {}
           /\ \A p \in SkillPlayers(S) : HasRowAt(S, p, LastFrameOf(S))
           /\ DefenseAt(S, LastFrameOf(S)) # {}

\* an input table cut down to the rows of one play
OnlyPlay(table, key) ==
    SelectSeq(table, LAMBDA r : r.game_id = key[1] /\ r.play_id = key[2])

\* C5: a skipped play neither stops the run nor changes another play's
\* record: every targeted play is consumed, and the records returned for a
\* play are those returned from that play's own rows alone.
C5_PlaysAreIndependent ==
    /\ Len(outcomes) = idx
    /\ idx <= Len(targeted_plays(supp_df))
    /\ sep_done =>
        /\ idx = Len(targeted_plays(supp_df))
        /\ \A key \in PlayKeys :
              OnlyPlay(results, key)
                = find_nearest_defender(OnlyPlay(tracking_df, key),
                                        OnlyPlay(supp_df, key))

\* a finished run that skipped one play and then emitted a record for
\* another play, with rows of a third play in the table
C5_Witness ==
    /\ sep_done
    /\ \E j, k \in 1..Len(outcomes) :
          /\ j < k
          /\ outcomes[j] # "record"
          /\ outcomes[k] = "record"
          /\ ProcessedPlay(j) # ProcessedPlay(k)
          /\ ProcessedPlay(j) # {}
    /\ \E key \in PlayKeys :
          /\ RowsOfPlay(key[1], key[2]) # {}
          /\ \A i \in 1..Len(targeted_plays(supp_df)) :
                <<targeted_plays(supp_df)[i].game_id,
                  targeted_plays(supp_df)[i].play_id>> # key

\* the receiver or every defender is absent at the play's first frame
SnapIncomplete(rec) ==
    LET S == RecordPlay(rec)
        f == FirstFrameOf(S)
    IN ~HasRowAt(S, rec.receiver_nfl_id, f) \/ DefenseAt(S, f) = {}

\* C6: without the receiver or without a defender at the play's first frame,
\* coverage_cushion and separation_change are NaN while the throw-frame
\* values are emitted as usual.
C6_SnapMissingGivesNaN ==
    \A i \in 1..Len(results) :
        LET rec == results[i]
            S == RecordPlay(rec)
        IN SnapIncomplete(rec) =>
            /\ isnan(rec.coverage_cushion)
            /\ isnan(rec.separation_change)
            /\ ThrowValuesRight(rec)
            /\ \E d \in DefenseAt(S, LastFrameOf(S)) :
                  /\ d.nfl_id = rec.nearest_defender_id
                  /\ SqDistTo(d, rec.receiver_x, rec.receiver_y)
                        = rec.separation_at_throw * rec.separation_at_throw

\* a record of a play whose receiver is absent at the first frame
C6_Witness ==
    \E i \in 1..Len(results) :
        LET S == RecordPlay(results[i])
        IN /\ ~HasRowAt(S, results[i].receiver_nfl_id, FirstFrameOf(S))
           /\ DefenseAt(S, FirstFrameOf(S)) # {}

\* a record of a play with no defender at the first frame but its receiver there
C6_WitnessNoDefender ==
    \E i \in 1..Len(results) :
        LET S == RecordPlay(results[i])
        IN /\ HasRowAt(S, results[i].receiver_nfl_id, FirstFrameOf(S))
           /\ DefenseAt(S, FirstFrameOf(S)) = {}

\* C7: with the receiver and a defender at the play's first frame,
\* coverage_cushion is the least distance from the receiver's first-frame
\* position to a Defense-side row of that frame, and separation_change is
\* separation_at_throw minus coverage_cushion.
C7_CushionAndChange ==
    \A i \in 1..Len(results) :
        LET rec == results[i]
            S == RecordPlay(rec)
            f == FirstFrameOf(S)
            at == RowAt(S, rec.receiver_nfl_id, f)
        IN ~SnapIncomplete(rec) =>
            /\ rec.coverage_cushion >= 0
            /\ rec.coverage_cushion * rec.coverage_cushion
                  = SetMin({SqDistTo(d, at.x, at.y) : d \in DefenseAt(S, f)})
            /\ rec.separation_change
                  = rec.separation_at_throw - rec.coverage_cushion

\* a record whose nearest defender at the first frame is not the nearest
\* defender at the throw, with a cushion that differs from the separation
C7_Witness ==
    \E i \in 1..Len(results) :
        LET rec == results[i]
            S == RecordPlay(rec)
            f == FirstFrameOf(S)
            at == RowAt(S, rec.receiver_nfl_id, f)
        IN /\ ~SnapIncomplete(rec)
           /\ rec.separation_change < 0
           /\ \E d \in DefenseAt(S, f) :
                 /\ d.nfl_id # rec.nearest_defender_id
                 /\ \A e \in DefenseAt(S, f) :
                       e.nfl_id # d.nfl_id
                           => SqDistTo(d, at.x, at.y) < SqDistTo(e, at.x, at.y)

-----------------------------------------------------------------------------
(* experiments/exp_002_safeties_vs_cornerbacks/scripts/engineer_features.py *)
(*                                                                         *)
(* The frame table df is a sequence of rows; a column is a field of every  *)
(* row.  The group averages (mean, rolling mean) are held exactly, as      *)
(* multiples of 1/Scale; a standard deviation is held by its square, the   *)
(* sample variance, as a multiple of 1/Scale.                              *)

\* a common multiple of every group size and window size of the inputs
Scale == 2 * 2 * 3 * 5

RECURSIVE SumSeq(_)
SumSeq(seq) ==
    IF seq = <<>> THEN 0 ELSE SumSeq(SubSeq(seq, 1, Len(seq) - 1)) + seq[Len(seq)]

\* the non-missing values of a series
valid(series) == SelectSeq(series, LAMBDA v : ~isnan(v))

\* a variant of mean that counts the missing values in the divisor
mean_over_all(series) ==
    LET v == valid(series)
    IN IF v = <<>> THEN NaN ELSE (SumSeq(v) * Scale) \div Len(series)

\* Series.mean(): the average of the non-missing values, NaN when there is none
mean(series) ==
    LET v == valid(series)
    IN IF v = <<>> THEN NaN ELSE (SumSeq(v) * Scale) \div Len(v)

\* Series.max() / Series.min(): over the non-missing values
series_max(series) ==
    LET v == valid(series) IN IF v = <<>> THEN NaN ELSE SetMax(Range(v))

series_min(series) ==
    LET v == valid(series) IN IF v = <<>> THEN NaN ELSE SetMin(Range(v))

\* Series.std() squared: the sample variance (ddof = 1) of the non-missing
\* values, NaN for fewer than two values
std_squared(series) ==
    LET v == valid(series)
        n == Len(v)
        sq == [i \in 1..n |-> v[i] * v[i]]
    IN IF n < 2 THEN NaN
       ELSE ((n * SumSeq(sq) - SumSeq(v) * SumSeq(v)) * Scale) \div (n * (n - 1))

\* a variant of first that takes the first value, missing or not
first_row(series) == series[1]

\* GroupBy.first(): the first non-missing value, NaN when there is none
first(series) ==
    LET v == valid(series) IN IF v = <<>> THEN NaN ELSE v[1]

\* a variant of group_key that leaves the player out
group_key_play_only(r) == <<r.game_id, r.play_id>>

\* the key of groupby(['game_id', 'play_id', 'nfl_id'])
group_key(r) == <<r.game_id, r.play_id, r.nfl_id>>

\* the rows of a row's group, in table order
group_rows(table, key) == SelectSeq(table, LAMBDA r : group_key(r) = key)

\* the position of row i of the table within its group
group_position(table, i) ==
    Cardinality({j \in 1..i : group_key(table[j]) = group_key(table[i])})

\* one column of a sequence of rows
column(rows, col) == [k \in 1..Len(rows) |-> rows[k][col]]

\* lexicographic order on tuples of integers of the same length
RECURSIVE TupleLess(_, _)
TupleLess(a, b) ==
    IF a = <<>> THEN FALSE
    ELSE \/ a[1] < b[1]
         \/ a[1] = b[1] /\ TupleLess(Tail(a), Tail(b))

\* a table with new columns: new(i) gives the new cells of row i
WithColumns(table, new(_)) == [i \in 1..Len(table) |-> new(i) @@ table[i]]

-----------------------------------------------------------------------------
(* engineer_kinematic_features *)

\* the per-group statistics named by the configured metric lists
speed_columns(cfg) ==
    {c \in {"avg_speed", "max_speed", "min_speed", "std_speed"} :
        \/ c = "avg_speed" /\ "mean" \in cfg.speed_metrics
        \/ c = "max_speed" /\ "max" \in cfg.speed_metrics
        \/ c = "min_speed" /\ "min" \in cfg.speed_metrics
        \/ c = "std_speed" /\ "std" \in cfg.speed_metrics}

accel_columns(cfg) ==
    {c \in {"avg_accel", "max_accel", "std_accel"} :
        \/ c = "avg_accel" /\ "mean" \in cfg.acceleration_metrics
        \/ c = "max_accel" /\ "max" \in cfg.acceleration_metrics
        \/ c = "std_accel" /\ "std" \in cfg.acceleration_metrics}

at_throw_columns(cfg) ==
    IF cfg.calculate_at_throw_moment THEN {"speed_at_throw", "accel_at_throw"}
    ELSE {}

\* grouped[col].transform(statistic), on one row's group
kinematic_statistic(g, c) ==
    CASE c = "avg_speed" -> mean(column(g, "s"))
      [] c = "max_speed" -> series_max(column(g, "s"))
      [] c = "min_speed" -> series_min(column(g, "s"))
      [] c = "std_speed" -> std_squared(column(g, "s"))
      [] c = "avg_accel" -> mean(column(g, "a"))
      [] c = "max_accel" -> series_max(column(g, "a"))
      [] c = "std_accel" -> std_squared(column(g, "a"))

\* np.where(df['frame_id'] == last_frame, df[col], np.nan), on one group
where_last_frame(g, col) ==
    LET last_frame == series_max(column(g, "frame_id"))
    IN [k \in 1..Len(g) |-> IF g[k].frame_id = last_frame THEN g[k][col] ELSE NaN]

\* x.fillna(method='bfill') at position k: the value itself, or the next
\* non-missing value after it in the group's row order, NaN when there is none
bfill(series, k) ==
    LET filled == {j \in k..Len(series) : ~isnan(series[j])}
    IN IF filled = {} THEN NaN ELSE series[SetMin(filled)]

\* speed_at_throw / accel_at_throw of the row at position k of its group
at_throw(g, k, col) == bfill(where_last_frame(g, col), k)

kinematic_value(table, i, c) ==
    LET g == group_rows(table, group_key(table[i]))
    IN CASE c = "speed_at_throw" -> at_throw(g, group_position(table, i), "s")
         [] c = "accel_at_throw" -> at_throw(g, group_position(table, i), "a")
         [] OTHER -> kinematic_statistic(g, c)

engineer_kinematic_features(table, cfg) ==
    LET cols == speed_columns(cfg) \cup accel_columns(cfg) \cup at_throw_columns(cfg)
    IN WithColumns(table, LAMBDA i : [c \in cols |-> kinematic_value(table, i, c)])

-----------------------------------------------------------------------------
(* engineer_temporal_features *)

sort_key(r) == <<r.game_id, r.play_id, r.nfl_id, r.frame_id>>

\* insertion of a row into a sorted table, after the rows that are not greater
RECURSIVE InsertByKey(_, _)
InsertByKey(sorted, r) ==
    IF sorted = <<>> THEN <<r>>
    ELSE IF ~TupleLess(sort_key(r), sort_key(sorted[Len(sorted)]))
         THEN Append(sorted, r)
         ELSE Append(InsertByKey(SubSeq(sorted, 1, Len(sorted) - 1), r),
                     sorted[Len(sorted)])

\* a variant of sort_values that leaves the rows in the order they came in
sort_values_as_given(table) == table

\* df.sort_values(['game_id', 'play_id', 'nfl_id', 'frame_id'])
RECURSIVE sort_values(_)
sort_values(table) ==
    IF table = <<>> THEN <<>>
    ELSE InsertByKey(sort_values(SubSeq(table, 1, Len(table) - 1)),
                     table[Len(table)])

\* a variant of diff that takes the first value as a change from zero
diff_from_zero(series, k) ==
    IF k = 1 THEN series[k] ELSE series[k] - series[k - 1]

\* grouped[col].diff() at position k of a group
diff(series, k) ==
    IF k = 1 \/ isnan(series[k]) \/ isnan(series[k - 1]) THEN NaN
    ELSE series[k] - series[k - 1]

\* a variant of rolling_mean whose window never drops a frame
rolling_mean_expanding(series, w, k) == mean(SubSeq(series, 1, k))

\* a variant of negate that keeps the sign
negate_not(v) == v

\* unary minus on a cell
negate(v) == IF isnan(v) THEN NaN ELSE 0 - v

\* df['dist_change'] and df['closing_rate'] of a group, as series
dist_change_series(g) ==
    [k \in 1..Len(g) |-> diff(column(g, "dist_to_ball_landing"), k)]

closing_rate_series(g) ==
    [k \in 1..Len(g) |-> negate(dist_change_series(g)[k])]

\* x.rolling(window=w, min_periods=1).mean() at position k: the average of
\* the non-missing values among the last w positions up to k
rolling_mean(series, w, k) ==
    mean(SubSeq(series, IF k - w + 1 > 1 THEN k - w + 1 ELSE 1, k))

\* a variant of reacting_of that takes a missing rate as exceeding
reacting_of_missing(smooth, threshold) ==
    IF isnan(smooth) \/ smooth > threshold * Scale THEN 1 ELSE 0

\* a variant of reacting_of that takes a rate equal to the threshold as well
reacting_of_inclusive(smooth, threshold) ==
    IF ~isnan(smooth) /\ smooth >= threshold * Scale THEN 1 ELSE 0

\* (df['closing_rate_smooth'] > threshold).astype(int)
reacting_of(smooth, threshold) ==
    IF ~isnan(smooth) /\ smooth > threshold * Scale THEN 1 ELSE 0

\* the reacting flags of a group, as a series
reacting_series(g, cfg) ==
    [k \in 1..Len(g) |->
        reacting_of(rolling_mean(closing_rate_series(g),
                                 cfg.min_frames_for_reaction, k),
                    cfg.reaction_speed_threshold)]

\* np.where(df['reacting'] == 1, df['frame_id'], np.nan) of a group
reaction_frame_series(g, cfg) ==
    [k \in 1..Len(g) |-> IF reacting_series(g, cfg)[k] = 1 THEN g[k].frame_id ELSE NaN]

temporal_columns ==
    {"dist_change", "closing_rate", "avg_closing_rate", "closing_rate_smooth",
     "reacting", "reaction_frame", "reaction_frame_min", "initial_dist_to_ball",
     "min_dist_to_ball"}

temporal_value(g, k, c, cfg) ==
    CASE c = "dist_change" -> dist_change_series(g)[k]
      [] c = "closing_rate" -> closing_rate_series(g)[k]
      [] c = "avg_closing_rate" -> mean(closing_rate_series(g))
      [] c = "closing_rate_smooth" ->
            rolling_mean(closing_rate_series(g), cfg.min_frames_for_reaction, k)
      [] c = "reacting" -> reacting_series(g, cfg)[k]
      [] c = "reaction_frame" -> reaction_frame_series(g, cfg)[k]
      [] c = "reaction_frame_min" -> series_min(reaction_frame_series(g, cfg))
      [] c = "initial_dist_to_ball" -> first(column(g, "dist_to_ball_landing"))
      [] c = "min_dist_to_ball" -> series_min(column(g, "dist_to_ball_landing"))

engineer_temporal_features(table, cfg) ==
    LET sorted == sort_values(table)
    IN WithColumns(sorted,
           LAMBDA i : [c \in temporal_columns |->
                          temporal_value(group_rows(sorted, group_key(sorted[i])),
                                         group_position(sorted, i), c, cfg)])

-----------------------------------------------------------------------------
(* create_play_level_dataset *)

id_cols ==
    {"game_id", "play_id", "nfl_id", "player_name", "player_position",
     "position_group", "player_height", "player_weight", "player_birth_date"}

context_cols ==
    {"week", "pass_result", "pass_length", "pass_location_type",
     "team_coverage_type", "team_coverage_man_zone", "down", "yards_to_go",
     "quarter", "ball_land_x", "ball_land_y", "absolute_yardline_number"}

feature_cols ==
    {"initial_dist_to_ball", "min_dist_to_ball", "avg_speed", "max_speed",
     "min_speed", "std_speed", "speed_at_throw", "accel_at_throw", "avg_accel",
     "max_accel", "std_accel", "avg_dir_alignment", "avg_orient_alignment",
     "avg_body_control", "pct_good_dir_alignment", "avg_closing_rate",
     "reaction_frame_min", "post_throw_distance", "final_proximity_to_ball",
     "convergence_distance", "num_post_frames"}

\* the columns of a table (every row has the same)
columns(table) == IF table = <<>> THEN {} ELSE DOMAIN table[1]

\* the keys of agg_dict: the retained columns the table has
agg_columns(table) == (id_cols \cup context_cols \cup feature_cols) \cap columns(table)

\* the group keys in the order groupby lists them: ascending
RECURSIVE sorted_keys(_)
sorted_keys(K) ==
    IF K = {} THEN <<>>
    ELSE LET least == CHOOSE k \in K : \A o \in K : ~TupleLess(o, k)
         IN <<least>> \o sorted_keys(K \ {least})

\* df.groupby([...]).agg(agg_dict).reset_index(drop=True)
create_play_level_dataset(table) ==
    LET keys == sorted_keys({group_key(table[i]) : i \in 1..Len(table)})
    IN [n \in 1..Len(keys) |->
          [c \in agg_columns(table) |-> first(column(group_rows(table, keys[n]), c))]]

-----------------------------------------------------------------------------
(* The feature stages as operations on df *)

PlayLevelDone == \E n \in 1..Len(stages) : stages[n] = "play_level"

Applied(stage) == \E n \in 1..Len(stages) : stages[n] = stage

\* df = engineer_kinematic_features(df, config, logger)
EngineerKinematic ==
    /\ config # <<>>
    /\ ~Applied("kinematic") /\ ~PlayLevelDone
    /\ df' = engineer_kinematic_features(df, config)
    /\ stages' = Append(stages, "kinematic")
    /\ UNCHANGED <<config, play_level_df>>
    /\ UNCHANGED angVars
    /\ UNCHANGED mainVars
    /\ UNCHANGED sepVars
    /\ UNCHANGED valVars

\* df = engineer_temporal_features(df, config, logger)
EngineerTemporal ==
    /\ config # <<>>
    /\ ~Applied("temporal") /\ ~PlayLevelDone
    /\ df = <<>> \/ "dist_to_ball_landing" \in columns(df)
    /\ df' = engineer_temporal_features(df, config)
    /\ stages' = Append(stages, "temporal")
    /\ UNCHANGED <<config, play_level_df>>
    /\ UNCHANGED angVars
    /\ UNCHANGED mainVars
    /\ UNCHANGED sepVars
    /\ UNCHANGED valVars

\* play_level_df = create_play_level_dataset(df, config, logger)
CreatePlayLevel ==
    /\ config # <<>>
    /\ ~PlayLevelDone
    /\ play_level_df' = create_play_level_dataset(df)
    /\ stages' = Append(stages, "play_level")
    /\ UNCHANGED <<df, config>>
    /\ UNCHANGED angVars
    /\ UNCHANGED mainVars
    /\ UNCHANGED sepVars
    /\ UNCHANGED valVars

-----------------------------------------------------------------------------
(* Inputs of the feature stages *)

\* frame_id of the frame table ranges over 1..MaxFrames, and over
\* 1..MaxFrames + 1 in the one group that outlasts the longest window
MaxFrames == 3

\* distances to the ball landing point of the first group's frames
Distances == {0, 1, 4, 5}

\* a frame row: the speed rises and the acceleration falls with the frame;
\* the player_weight cell is missing on the first frame of the second player
\* and holds the player's weight on every other row
FrameRow(key, f, dist) ==
    [game_id |-> key[1], play_id |-> key[2], nfl_id |-> key[3], frame_id |-> f,
     s |-> 2 * f + key[2], a |-> 9 - f - key[1], dist_to_ball_landing |-> dist,
     player_weight |-> IF key[3] = 21 /\ f = 1 THEN NaN ELSE 10 * key[3]]

\* the rows of a group, ascending by frame, from a function frame -> distance
RECURSIVE GroupRowsOf(_, _)
GroupRowsOf(key, dists) ==
    IF DOMAIN dists = {} THEN <<>>
    ELSE LET f == SetMax(DOMAIN dists)
         IN Append(GroupRowsOf(key, [g \in DOMAIN dists \ {f} |-> dists[g]]),
                   FrameRow(key, f, dists[f]))

\* the functions from a set of frames to the distances
FrameDistances == UNION {[F -> Distances] : F \in SUBSET (1..MaxFrames)}

\* the row orders of a table: as built, reversed, or rotated by one row
Reorder(table, order) ==
    CASE order = "ascending" -> table
      [] order = "reversed" -> Reverse(table)
      [] order = "rotated" ->
            IF table = <<>> THEN table ELSE Append(Tail(table), Head(table))

\* the configurations: every statistic with the throw-moment columns, for two
\* thresholds with a window of two frames and for a window of three frames,
\* and a short one without them
Configs ==
    [speed_metrics : {{"mean", "max", "min", "std"}},
     acceleration_metrics : {{"mean", "max", "min", "std"}},
     calculate_at_throw_moment : {TRUE},
     min_frames_for_reaction : {2},
     reaction_speed_threshold : {1, 2}]
    \cup
    [speed_metrics : {{"mean", "max", "min", "std"}},
     acceleration_metrics : {{"mean", "max", "min", "std"}},
     calculate_at_throw_moment : {TRUE},
     min_frames_for_reaction : {3},
     reaction_speed_threshold : {2}]
    \cup
    [speed_metrics : {{"max"}},
     acceleration_metrics : {{"mean"}},
     calculate_at_throw_moment : {FALSE},
     min_frames_for_reaction : {2},
     reaction_speed_threshold : {0}]

\* the distance of the long group: it closes by 3 and by 1 in turn
LongGroupDistance(f) == 20 - f - 2 * (f \div 2)

\* three groups: a player of one play with any frames and distances, another
\* player of that play and the first player in another play
FeatureInit ==
    /\ \E d1 \in FrameDistances, n2 \in {0, 2}, n3 \in {0, MaxFrames + 1},
          order \in {"ascending", "reversed", "rotated"} :
          df = Reorder(GroupRowsOf(<<1, 1, 11>>, d1)
                       \o GroupRowsOf(<<1, 1, 21>>, [f \in 1..n2 |-> 7 - f])
                       \o GroupRowsOf(<<1, 2, 11>>, [f \in 1..n3 |-> LongGroupDistance(f)]),
                       order)
    /\ config \in Configs
    /\ stages = <<>>
    /\ play_level_df = <<>>
    /\ angle1 = <<>>
    /\ angle2 = <<>>
    /\ angular_difference = <<>>
    /\ merged_file = [exists |-> FALSE, rows |-> <<>>]
    /\ error_log = <<>>
    /\ raised = ""
    /\ saved = <<>>
    /\ input_df = [columns |-> <<>>, rows |-> <<>>]
    /\ arguments = <<>>
    /\ missing = <<>>
    /\ validation = <<>>
    /\ tracking_df = <<>>
    /\ supp_df = <<>>
    /\ idx = 0
    /\ results = <<>>
    /\ outcomes = <<>>
    /\ sep_done = TRUE

FeatureNext ==
    \/ EngineerKinematic
    \/ EngineerTemporal
    \/ CreatePlayLevel

FeatureSpec == FeatureInit /\ [][FeatureNext]_vars

-----------------------------------------------------------------------------
(* The words of the claims about the feature stages, stated on the tables  *)
(* as sets of rows                                                         *)

\* the (game_id, play_id, nfl_id) triples of the frame table
Triples == {<<r.game_id, r.play_id, r.nfl_id>> : r \in Range(df)}

\* the rows of a table with a triple
RowsWith(table, t) ==
    {n \in 1..Len(table) : /\ table[n].game_id = t[1]
                           /\ table[n].play_id = t[2]
                           /\ table[n].nfl_id = t[3]}

\* C8: create_play_level_dataset returns exactly one row for each distinct
\* (game_id, play_id, nfl_id) triple of its input and no other row.
C8_OneRowPerTriple ==
    PlayLevelDone =>
        /\ Len(play_level_df) = Cardinality(Triples)
        /\ \A t \in Triples : Cardinality(RowsWith(play_level_df, t)) = 1
        /\ \A n \in 1..Len(play_level_df) :
              <<play_level_df[n].game_id, play_level_df[n].play_id,
                play_level_df[n].nfl_id>> \in Triples

\* the aggregation of a table that is not in ascending order, with three
\* triples and several frames of a triple
C8_Witness ==
    /\ stages = <<"play_level">>
    /\ Cardinality(Triples) = 3
    /\ Len(df) > 4
    /\ \E i \in 1..(Len(df) - 1) :
          /\ df[i].nfl_id = df[i + 1].nfl_id /\ df[i].play_id = df[i + 1].play_id
          /\ df[i].frame_id > df[i + 1].frame_id
    /\ Len(play_level_df) = 3

\* the rows of a row's group, as a set
GroupOf(r) ==
    {q \in Range(df) : /\ q.game_id = r.game_id /\ q.play_id = r.play_id
                       /\ q.nfl_id = r.nfl_id}

\* the row of greatest frame_id of a row's group
ThrowRowOf(r) ==
    CHOOSE q \in GroupOf(r) : \A o \in GroupOf(r) : o.frame_id <= q.frame_id

\* C9: after engineer_kinematic_features with calculate_at_throw_moment,
\* every row carries the s and the a of its group's row of greatest frame_id
\* as speed_at_throw and accel_at_throw, whatever the row order.
C9_AtThrowOnEveryRow ==
    (Applied("kinematic") /\ config.calculate_at_throw_moment) =>
        \A i \in 1..Len(df) :
            /\ df[i].speed_at_throw = ThrowRowOf(df[i]).s
            /\ df[i].accel_at_throw = ThrowRowOf(df[i]).a

\* a group's distance falls with every frame
StrictlyDecreasing(G) ==
    \A p, q \in G : p.frame_id < q.frame_id
                        => p.dist_to_ball_landing > q.dist_to_ball_landing

\* the rows of a group after its first frame
AfterFirst(G) == {r \in G : \E p \in G : p.frame_id < r.frame_id}

ClosingRatePositive(G) ==
    \A r \in AfterFirst(G) : ~isnan(r.closing_rate) /\ r.closing_rate > 0

ReactingPersists(G) ==
    \A p, q \in G : (p.frame_id < q.frame_id /\ p.reacting = 1) => q.reacting = 1

\* C10 as stated: in a group whose distance strictly decreases, closing_rate
\* is positive at every frame after the first, and reacting, once true, is
\* true at every later frame.
C10_ReactingStaysTrue ==
    Applied("temporal") =>
        \A r \in Range(df) :
            StrictlyDecreasing(GroupOf(r)) =>
                ClosingRatePositive(GroupOf(r)) /\ ReactingPersists(GroupOf(r))

\* the closing rate never falls from a frame to a later one
ClosingRateNeverFalls(G) ==
    \A p, q \in AfterFirst(G) : p.frame_id < q.frame_id
                                    => p.closing_rate <= q.closing_rate

\* C10 (amended): in a group whose distance strictly decreases, closing_rate
\* is positive at every frame after the first and reacting is true exactly
\* at the frames whose smoothed closing rate exceeds the threshold; once
\* true it is true at every later frame provided the closing rate never
\* falls from one frame to the next.
C10_ReactingStaysTrueIfNotSlowing ==
    Applied("temporal") =>
        \A r \in Range(df) :
            LET G == GroupOf(r)
            IN StrictlyDecreasing(G) =>
                /\ ClosingRatePositive(G)
                /\ \A q \in G :
                      q.reacting = 1 <=>
                          /\ ~isnan(q.closing_rate_smooth)
                          /\ q.closing_rate_smooth
                                > config.reaction_speed_threshold * Scale
                /\ ClosingRateNeverFalls(G) => ReactingPersists(G)

\* a group of three or more frames with a strictly decreasing distance and a
\* closing rate that never falls, not reacting at its second frame and
\* reacting at a later one
C10_Witness ==
    /\ Applied("temporal")
    /\ \E r \in Range(df) :
          LET G == GroupOf(r)
          IN /\ Cardinality(G) >= 3
             /\ StrictlyDecreasing(G)
             /\ ClosingRateNeverFalls(G)
             /\ \E p, q \in AfterFirst(G) :
                   /\ p.frame_id < q.frame_id
                   /\ p.reacting = 0
                   /\ q.reacting = 1


\* the position of a row among the frames of its group, ascending by frame_id
Rank(r) == Cardinality({q \in GroupOf(r) : q.frame_id <= r.frame_id})

\* the trailing window of a row: the row and the w - 1 frames before it
Window(r, w) == {q \in GroupOf(r) : Rank(q) <= Rank(r) /\ Rank(q) > Rank(r) - w}

\* the sum of a column over a set of rows
RECURSIVE SumOfColumn(_, _)
SumOfColumn(R, col) ==
    IF R = {} THEN 0
    ELSE LET r == CHOOSE q \in R : TRUE IN r[col] + SumOfColumn(R \ {r}, col)

\* a cell holds the average of a column over a set of rows
IsAverageOf(cell, R, col) ==
    /\ ~isnan(cell)
    /\ cell * Cardinality(R) = Scale * SumOfColumn(R, col)

\* C11 as stated: closing_rate_smooth at a frame is the simple average of
\* closing_rate over the trailing window of min(i + 1, W) frames of the group,
\* every frame of the window counted (an average over a window that holds a
\* missing closing_rate is missing).
C11_AverageOverWindow ==
    Applied("temporal") =>
        \A r \in Range(df) :
            LET W == Window(r, config.min_frames_for_reaction)
            IN IF \E q \in W : isnan(q.closing_rate)
               THEN isnan(r.closing_rate_smooth)
               ELSE IsAverageOf(r.closing_rate_smooth, W, "closing_rate")

\* the frames of a row's trailing window that have a closing_rate
Observed(r, w) == {q \in Window(r, w) : ~isnan(q.closing_rate)}

\* C11 (amended): closing_rate_smooth at a frame is the average of the
\* closing_rate values that are not missing among the trailing window of
\* min(i + 1, W) frames, and is missing when the window has none; so the
\* first frame's value is missing like its closing_rate and the second
\* frame's value is its own closing_rate.
C11_AverageOfObserved ==
    Applied("temporal") =>
        \A r \in Range(df) :
            LET V == Observed(r, config.min_frames_for_reaction)
            IN /\ IF V = {} THEN isnan(r.closing_rate_smooth)
                  ELSE IsAverageOf(r.closing_rate_smooth, V, "closing_rate")
               /\ Rank(r) = 1 => isnan(r.closing_rate) /\ isnan(r.closing_rate_smooth)
               /\ Rank(r) = 2 => r.closing_rate_smooth = Scale * r.closing_rate

\* a group of more frames than the window, with a frame whose window has
\* left a frame with a closing_rate behind and whose smoothed value differs
\* from its own closing_rate
C11_Witness ==
    /\ Applied("temporal")
    /\ \E r \in Range(df) :
          LET V == Observed(r, config.min_frames_for_reaction)
          IN /\ Cardinality(V) = config.min_frames_for_reaction
             /\ \E q \in GroupOf(r) : q \notin V /\ ~isnan(q.closing_rate)
             /\ r.closing_rate_smooth # Scale * r.closing_rate


\* the frames of a row's group whose smoothed closing rate exceeds the
\* configured threshold
OverThreshold(r) ==
    {q \in GroupOf(r) : /\ ~isnan(q.closing_rate_smooth)
                        /\ q.closing_rate_smooth > config.reaction_speed_threshold * Scale}

\* C12: after engineer_temporal_features, reaction_frame_min is on every row
\* of a group the smallest frame_id among the group's frames whose
\* closing_rate_smooth exceeds reaction_speed_threshold, and NaN on every row
\* of a group that has no such frame.
C12_EarliestReactionFrame ==
    Applied("temporal") =>
        \A r \in Range(df) :
            IF OverThreshold(r) = {} THEN isnan(r.reaction_frame_min)
            ELSE /\ \E q \in OverThreshold(r) : r.reaction_frame_min = q.frame_id
                 /\ \A q \in OverThreshold(r) : r.reaction_frame_min <= q.frame_id

\* one table with a group that never exceeds the threshold although one of
\* its frames equals it, and a group whose second frame has a smoothed rate
\* that does not exceed it and whose third frame is the first that does
C12_Witness ==
    /\ Applied("temporal")
    /\ \E r \in Range(df) :
          /\ OverThreshold(r) = {}
          /\ r.closing_rate_smooth = config.reaction_speed_threshold * Scale
    /\ \E r \in Range(df) :
          /\ r.frame_id = 2 /\ ~isnan(r.closing_rate_smooth)
          /\ r \notin OverThreshold(r)
          /\ r.reaction_frame_min = 3


\* a row that is the only frame of its group
OnlyFrame(r) == GroupOf(r) = {r}

\* the temporal columns of the only frame of a group
LoneTemporal(r) ==
    /\ isnan(r.dist_change)
    /\ isnan(r.closing_rate)
    /\ isnan(r.avg_closing_rate)
    /\ isnan(r.closing_rate_smooth)
    /\ r.reacting = 0
    /\ isnan(r.reaction_frame_min)

\* the throw-moment columns of the only frame of a group
LoneAtThrow(r) == r.speed_at_throw = r.s /\ r.accel_at_throw = r.a

\* C13: for a group of exactly one frame the stages complete and give
\* dist_change, closing_rate, avg_closing_rate and closing_rate_smooth NaN,
\* reacting false and reaction_frame_min NaN, speed_at_throw equal to the
\* frame's s and accel_at_throw equal to the frame's a.
C13_SingleFrameGroup ==
    \A r \in Range(df) :
        OnlyFrame(r) =>
            /\ Applied("temporal") => LoneTemporal(r)
            /\ (Applied("kinematic") /\ config.calculate_at_throw_moment)
                  => LoneAtThrow(r)

\* both stages applied, with the throw-moment columns, to a table that holds
\* a group of one frame next to a group of several
C13_Witness ==
    /\ Applied("temporal") /\ Applied("kinematic")
    /\ config.calculate_at_throw_moment
    /\ \E r, q \in Range(df) :
          /\ OnlyFrame(r) /\ LoneTemporal(r) /\ LoneAtThrow(r)
          /\ Cardinality(GroupOf(q)) > 1


\* the rows of a table in ascending order of (game_id, play_id, nfl_id,
\* frame_id)
RECURSIVE AscendingRows(_)
AscendingRows(R) ==
    IF R = {} THEN <<>>
    ELSE LET least ==
                CHOOSE r \in R : \A o \in R :
                    ~TupleLess(<<o.game_id, o.play_id, o.nfl_id, o.frame_id>>,
                               <<r.game_id, r.play_id, r.nfl_id, r.frame_id>>)
         IN <<least>> \o AscendingRows(R \ {least})

\* a step of engineer_temporal_features
TemporalStep == ~Applied("temporal") /\ Applied("temporal")'

\* some group's rows are not in ascending frame_id order in the table
GroupOutOfOrder(table) ==
    \E i, j \in 1..Len(table) :
        /\ i < j
        /\ table[i].game_id = table[j].game_id
        /\ table[i].play_id = table[j].play_id
        /\ table[i].nfl_id = table[j].nfl_id
        /\ table[i].frame_id > table[j].frame_id

\* the columns the claim names
OrderSensitiveColumns ==
    {"dist_change", "closing_rate", "closing_rate_smooth", "reaction_frame_min",
     "initial_dist_to_ball"}

\* two outputs differ in one of these columns on some frame
OutputsDiffer(out1, out2) ==
    \E i \in 1..Len(out1), j \in 1..Len(out2) :
        /\ out1[i].game_id = out2[j].game_id
        /\ out1[i].play_id = out2[j].play_id
        /\ out1[i].nfl_id = out2[j].nfl_id
        /\ out1[i].frame_id = out2[j].frame_id
        /\ \E c \in OrderSensitiveColumns : out1[i][c] # out2[j][c]

\* C17 as stated: engineer_temporal_features does not sort, so for a table
\* in which a group's rows are not in ascending frame_id order its
\* dist_change, closing_rate, closing_rate_smooth, reaction_frame_min and
\* initial_dist_to_ball differ from those for the same rows in ascending order.
C17_UnsortedInputDiffers ==
    [][(TemporalStep /\ GroupOutOfOrder(df))
          => OutputsDiffer(df', engineer_temporal_features(AscendingRows(Range(df)), config))]_vars

\* C17 (amended): engineer_temporal_features sorts the table by (game_id,
\* play_id, nfl_id, frame_id) before it computes anything, so its result for
\* rows in any order is its result for the same rows in ascending order.
C17_SortsItsInput ==
    [][TemporalStep
          => df' = engineer_temporal_features(AscendingRows(Range(df)), config)]_vars

\* engineer_temporal_features has run on a table that came in with a group
\* out of order: the kinematic stage before it left a throw-moment value
\* missing, which it does only on a row placed after its group's last frame;
\* in the result the group's distance changes follow the frame order
C17_Witness ==
    /\ stages = <<"kinematic", "temporal">>
    /\ config.calculate_at_throw_moment
    /\ \E r \in Range(df) :
          /\ isnan(r.speed_at_throw)
          /\ Cardinality(GroupOf(r)) >= 3
          /\ \A q \in GroupOf(r) :
                /\ Rank(q) = 1 => /\ isnan(q.dist_change)
                                  /\ q.initial_dist_to_ball = q.dist_to_ball_landing
                /\ Rank(q) > 1 => ~isnan(q.dist_change) /\ q.dist_change # 0


\* the statistics a metric list may name
Statistics == {"mean", "max", "min", "std"}

\* the column of a statistic of the speed and of the acceleration series
SpeedColumn(stat) ==
    CASE stat = "mean" -> "avg_speed" [] stat = "max" -> "max_speed"
      [] stat = "min" -> "min_speed" [] stat = "std" -> "std_speed"

AccelColumn(stat) ==
    CASE stat = "mean" -> "avg_accel" [] stat = "max" -> "max_accel"
      [] stat = "min" -> "min_accel" [] stat = "std" -> "std_accel"

\* a cell holds a statistic of a column over a set of rows (the standard
\* deviation by its square, missing for fewer than two rows)
IsStatisticOf(cell, stat, R, col) ==
    LET n == Cardinality(R)
        squares == SumOfColumn({[v |-> q[col] * q[col], of |-> q] : q \in R}, "v")
    IN CASE stat = "mean" -> IsAverageOf(cell, R, col)
         [] stat = "max" -> /\ \E q \in R : cell = q[col]
                            /\ \A q \in R : q[col] <= cell
         [] stat = "min" -> /\ \E q \in R : cell = q[col]
                            /\ \A q \in R : q[col] >= cell
         [] stat = "std" ->
               IF n < 2 THEN isnan(cell)
               ELSE /\ ~isnan(cell)
                    /\ cell * n * (n - 1) =
                          Scale * (n * squares
                                   - SumOfColumn(R, col) * SumOfColumn(R, col))

\* a row has a column holding a statistic of its group
HasStatistic(r, c, stat, col) ==
    /\ c \in DOMAIN r
    /\ IsStatisticOf(r[c], stat, GroupOf(r), col)

\* C18: engineer_kinematic_features produces, for every statistic of {mean,
\* max, min, std} listed in speed_metrics, a speed column and, for every one
\* listed in acceleration_metrics, an acceleration column, each holding the
\* group's statistic on every row of the group.
C18_EveryConfiguredStatistic ==
    Applied("kinematic") =>
        \A r \in Range(df) :
            /\ \A stat \in config.speed_metrics \cap Statistics :
                  HasStatistic(r, SpeedColumn(stat), stat, "s")
            /\ \A stat \in config.acceleration_metrics \cap Statistics :
                  HasStatistic(r, AccelColumn(stat), stat, "a")

\* the rows of df, in table order, that belong to a play-level row's group
\* and have a value in a column
RowsWithValue(out, c) ==
    {i \in RowsWith(df, <<out.game_id, out.play_id, out.nfl_id>>) : ~isnan(df[i][c])}

\* the columns create_play_level_dataset may retain
Retained == id_cols \cup context_cols \cup feature_cols

\* C19 as stated: each output row of create_play_level_dataset has, for every
\* retained column, the value on the first row (in table order) of its group,
\* missing or not, and no column outside the retain-lists.
C19_FirstRowValue ==
    PlayLevelDone =>
        \A n \in 1..Len(play_level_df) :
            LET out == play_level_df[n]
                rows == RowsWith(df, <<out.game_id, out.play_id, out.nfl_id>>)
            IN /\ DOMAIN out = Retained \cap DOMAIN df[SetMin(rows)]
               /\ \A c \in DOMAIN out : out[c] = df[SetMin(rows)][c]

\* C19 (amended): each output row has, for every retained column, the first
\* value that is not missing, in table order, among the rows of its group,
\* and a missing value only when the column is missing on every row of the
\* group; it has no column outside the retain-lists.
C19_FirstValueNotMissing ==
    PlayLevelDone =>
        \A n \in 1..Len(play_level_df) :
            LET out == play_level_df[n]
                rows == RowsWith(df, <<out.game_id, out.play_id, out.nfl_id>>)
            IN /\ DOMAIN out = Retained \cap DOMAIN df[SetMin(rows)]
               /\ \A c \in DOMAIN out :
                     IF RowsWithValue(out, c) = {} THEN isnan(out[c])
                     ELSE out[c] = df[SetMin(RowsWithValue(out, c))][c]

\* the aggregation, with no stage run before it, of a table in which the
\* first row of a group (its first frame) has no player_weight and the next
\* row of the group has one: the output row takes the later row's value; the
\* columns s, a and frame_id are dropped
C19_Witness ==
    /\ stages = <<"play_level">>
    /\ \E n \in 1..Len(play_level_df) :
          LET out == play_level_df[n]
              rows == RowsWith(df, <<out.game_id, out.play_id, out.nfl_id>>)
          IN /\ "player_weight" \in DOMAIN out
             /\ df[SetMin(rows)].frame_id = 1
             /\ isnan(df[SetMin(rows)].player_weight)
             /\ \E i \in rows : out.player_weight = df[i].player_weight
             /\ ~isnan(out.player_weight)
             /\ {"s", "a", "frame_id"} \cap DOMAIN out = {}
             /\ {"s", "a", "frame_id"} \subseteq DOMAIN df[SetMin(rows)]


\* the least and the greatest frame_id of a row's group
MinFrame(r) == SetMin({q.frame_id : q \in GroupOf(r)})

MaxFrameOf(r) == SetMax({q.frame_id : q \in GroupOf(r)})

\* C28: after engineer_temporal_features the first frame of a group has no
\* closing_rate and no closing_rate_smooth and is never marked reacting; so
\* a reaction_frame_min that is not NaN is a frame_id of the group, greater
\* than the group's least frame_id and at most its greatest.
C28_FirstFrameNeverReacting ==
    Applied("temporal") =>
        \A r \in Range(df) :
            /\ r.frame_id = MinFrame(r) =>
                  /\ isnan(r.closing_rate)
                  /\ isnan(r.closing_rate_smooth)
                  /\ r.reacting = 0
            /\ ~isnan(r.reaction_frame_min) =>
                  /\ \E q \in GroupOf(r) : q.frame_id = r.reaction_frame_min
                  /\ r.reaction_frame_min > MinFrame(r)
                  /\ r.reaction_frame_min <= MaxFrameOf(r)

\* a group whose every frame after the first is reacting: reaction_frame_min
\* is its second frame, and its first frame is not reacting
C28_Witness ==
    /\ Applied("temporal")
    /\ \E r \in Range(df) :
          /\ Cardinality(GroupOf(r)) >= 3
          /\ r.frame_id = MinFrame(r)
          /\ r.reacting = 0
          /\ \A q \in GroupOf(r) \ {r} : q.reacting = 1
          /\ \E q \in GroupOf(r) : /\ Rank(q) = 2
                                   /\ q.frame_id = r.reaction_frame_min

\* the rows of a row's group at its least and at its greatest frame_id
FirstOf(r) == CHOOSE q \in GroupOf(r) : q.frame_id = MinFrame(r)

LastOf(r) == CHOOSE q \in GroupOf(r) : q.frame_id = MaxFrameOf(r)

\* C29: for a group of n >= 2 frames with no missing distance the
\* closing_rate values sum to the distance at the first frame minus the
\* distance at the last frame, avg_closing_rate is that difference divided
\* by n - 1, and min_dist_to_ball <= initial_dist_to_ball.
C29_ClosingRatesTelescope ==
    Applied("temporal") =>
        \A r \in Range(df) :
            LET G == GroupOf(r)
                n == Cardinality(G)
                closed == FirstOf(r).dist_to_ball_landing
                            - LastOf(r).dist_to_ball_landing
            IN n >= 2 =>
                /\ SumOfColumn({q \in G : ~isnan(q.closing_rate)}, "closing_rate")
                      = closed
                /\ ~isnan(r.avg_closing_rate)
                /\ r.avg_closing_rate * (n - 1) = Scale * closed
                /\ r.min_dist_to_ball <= r.initial_dist_to_ball

\* a group of three or more frames that first backs away and then closes in,
\* ending nearer than it began
C29_Witness ==
    /\ Applied("temporal")
    /\ \E r \in Range(df) :
          /\ Cardinality(GroupOf(r)) >= 3
          /\ \E q \in GroupOf(r) : ~isnan(q.closing_rate) /\ q.closing_rate < 0
          /\ \E q \in GroupOf(r) : ~isnan(q.closing_rate) /\ q.closing_rate > 0
          /\ r.avg_closing_rate > 0
          /\ r.min_dist_to_ball < r.initial_dist_to_ball

-----------------------------------------------------------------------------
(* calculate_angular_difference *)
(*                                                                         *)
(* Angles are whole degrees.  The function is written for numpy arrays and *)
(* works on scalars by broadcasting: it is modelled on one cell, and the   *)
(* call applies it to every position of its two arguments.                 *)

\* a variant of abs that keeps the sign
abs_signed(v) == v

\* np.abs on a cell
abs(v) == IF isnan(v) THEN NaN ELSE IF v < 0 THEN 0 - v ELSE v

\* a variant of wrap_around that leaves every difference as it is
wrap_around_never(d) == d

\* np.where(diff > 180, 360 - diff, diff) on a cell (a NaN is not > 180)
wrap_around(d) == IF ~isnan(d) /\ d > 180 THEN 360 - d ELSE d

\* the difference of two cells
minus(a, b) == IF isnan(a) \/ isnan(b) THEN NaN ELSE a - b

calculate_angular_difference(a1, a2) == wrap_around(abs(minus(a1, a2)))

\* diff = calculate_angular_difference(angle1, angle2)
CalculateAngularDifference ==
    /\ angle1 # <<>>
    /\ angular_difference = <<>>
    /\ angular_difference' =
          [k \in 1..Len(angle1) |-> calculate_angular_difference(angle1[k], angle2[k])]
    /\ UNCHANGED <<angle1, angle2>>
    /\ UNCHANGED <<df, config, stages, play_level_df>>
    /\ UNCHANGED mainVars
    /\ UNCHANGED sepVars
    /\ UNCHANGED valVars

\* the arguments are vectors of 1..MaxVec angles
MaxVec == 2

\* the angles of a single call: every tenth degree of [0, 360)
Angles == {10 * n : n \in 0..35}

\* the angles of the longer vectors: both sides of 0 and of 180
WrapAngles == {0, 10, 170, 180, 190, 350}

AngleInit ==
    /\ \E n \in 1..MaxVec :
          /\ angle1 \in [1..n -> IF n = 1 THEN Angles ELSE WrapAngles]
          /\ angle2 \in [1..n -> IF n = 1 THEN Angles ELSE WrapAngles]
    /\ angular_difference = <<>>
    /\ merged_file = [exists |-> FALSE, rows |-> <<>>]
    /\ error_log = <<>>
    /\ raised = ""
    /\ saved = <<>>
    /\ input_df = [columns |-> <<>>, rows |-> <<>>]
    /\ arguments = <<>>
    /\ missing = <<>>
    /\ validation = <<>>
    /\ df = <<>>
    /\ config = <<>>
    /\ stages = <<>>
    /\ play_level_df = <<>>
    /\ tracking_df = <<>>
    /\ supp_df = <<>>
    /\ idx = 0
    /\ results = <<>>
    /\ outcomes = <<>>
    /\ sep_done = TRUE

AngleNext == CalculateAngularDifference

AngleSpec == AngleInit /\ [][AngleNext]_vars

\* the distance of two numbers
Apart(a, b) == IF a >= b THEN a - b ELSE b - a

\* the smaller of two numbers
Smaller(a, b) == IF a <= b THEN a ELSE b

\* the call has returned
Returned == angular_difference # <<>>

\* C15: for angles a1, a2 of [0, 360), calculate_angular_difference(a1, a2)
\* lies in [0, 180] and equals min(|a1 - a2|, 360 - |a1 - a2|), it is 20 for
\* (350, 10), and the same holds at every position of vector arguments.
C15_SmallestDifference ==
    Returned =>
        \A k \in 1..Len(angle1) :
            /\ angular_difference[k] \in 0..180
            /\ angular_difference[k] =
                  Smaller(Apart(angle1[k], angle2[k]), 360 - Apart(angle1[k], angle2[k]))
            /\ (angle1[k] = 350 /\ angle2[k] = 10) => angular_difference[k] = 20

\* a call on vectors of two angles, (350, 10) at one position and a pair less
\* than 180 apart at the other
C15_Witness ==
    /\ Returned
    /\ Len(angle1) = 2
    /\ angle1[1] = 350 /\ angle2[1] = 10 /\ angular_difference[1] = 20
    /\ Apart(angle1[2], angle2[2]) \in 1..179
    /\ angular_difference[2] = Apart(angle1[2], angle2[2])

\* C16: calculate_angular_difference is symmetric and zero on the diagonal:
\* the value returned for (a1, a2) is the value for (a2, a1), and it is 0
\* when a1 = a2.
C16_SymmetricZeroDiagonal ==
    Returned =>
        \A k \in 1..Len(angle1) :
            /\ angular_difference[k] = calculate_angular_difference(angle2[k], angle1[k])
            /\ angle1[k] = angle2[k] => angular_difference[k] = 0

\* a call with two equal angles at one position and, at the other, a smaller
\* first angle more than 180 below the second
C16_Witness ==
    /\ Returned
    /\ Len(angle1) = 2
    /\ angle1[1] = angle2[1] /\ angle1[1] > 0 /\ angular_difference[1] = 0
    /\ angle2[2] - angle1[2] > 180
    /\ angular_difference[2] = 360 - (angle2[2] - angle1[2])

-----------------------------------------------------------------------------
(* engineer_spatial_features and engineer_directional_features *)
(*                                                                         *)
(* Positions are whole yards on lines through the ball landing point, so   *)
(* that every distance is a whole number and every bearing a whole degree. *)
(* A value with a fractional part (a half of a configured width, a group   *)
(* average) is held exactly, as a multiple of 1/Scale.                     *)

\* a variant of calculate_distance that leaves the square root out
calculate_distance_squared(x1, y1, x2, y2) ==
    (x2 - x1) * (x2 - x1) + (y2 - y1) * (y2 - y1)

\* np.sqrt((x2 - x1)**2 + (y2 - y1)**2)
calculate_distance(x1, y1, x2, y2) ==
    Sqrt((x2 - x1) * (x2 - x1) + (y2 - y1) * (y2 - y1))

\* np.degrees(np.arctan2(dy, dx)), in (-180, 180], on the axes and diagonals
arctan2_degrees(dy, dx) ==
    CASE dy = 0 /\ dx >= 0 -> 0
      [] dy = 0 /\ dx < 0 -> 180
      [] dx = 0 /\ dy > 0 -> 90
      [] dx = 0 /\ dy < 0 -> 0 - 90
      [] dx > 0 /\ dy = dx -> 45
      [] dx > 0 /\ dy = 0 - dx -> 0 - 45
      [] dx < 0 /\ dy = 0 - dx -> 135
      [] dx < 0 /\ dy = dx -> 0 - 135

calculate_angle_to_target(x, y, target_x, target_y) ==
    (arctan2_degrees(target_y - y, target_x - x) + 360) % 360

spatial_columns ==
    {"dist_to_ball_landing", "dist_from_los", "dist_from_center", "near_hash",
     "near_sideline"}

\* np.abs(df['y'] - field_width / 2), as a multiple of 1/Scale
dist_from_center(r, cfg) == (Scale \div 2) * abs(2 * r.y - cfg.field_width)

spatial_value(r, c, cfg) ==
    CASE c = "dist_to_ball_landing" ->
            calculate_distance(r.x, r.y, r.ball_land_x, r.ball_land_y)
      [] c = "dist_from_los" -> abs(r.x - r.absolute_yardline_number)
      [] c = "dist_from_center" -> dist_from_center(r, cfg)
      [] c = "near_hash" ->
            IF dist_from_center(r, cfg) <= (Scale \div 2) * cfg.hash_width
            THEN 1 ELSE 0
      [] c = "near_sideline" ->
            IF r.y < 10 \/ r.y > cfg.field_width - 10 THEN 1 ELSE 0

\* a variant of engineer_spatial_features that folds y about the field centre
\* in place
engineer_spatial_features_in_place(table, cfg) ==
    WithColumns(table,
        LAMBDA i : [c \in spatial_columns \cup {"y"} |->
                      IF c = "y" THEN dist_from_center(table[i], cfg)
                      ELSE spatial_value(table[i], c, cfg)])

engineer_spatial_features(table, cfg) ==
    WithColumns(table,
        LAMBDA i : [c \in spatial_columns |-> spatial_value(table[i], c, cfg)])

\* the per-row angles of engineer_directional_features
angle_to_ball(r) == calculate_angle_to_target(r.x, r.y, r.ball_land_x, r.ball_land_y)

dir_alignment(r) == calculate_angular_difference(r.dir, angle_to_ball(r))

orient_alignment(r) == calculate_angular_difference(r.o, angle_to_ball(r))

body_control(r) == calculate_angular_difference(r.dir, r.o)

\* a variant of good_dir_alignment that takes an alignment equal to the
\* threshold as well
good_dir_alignment_inclusive(r, cfg) ==
    IF ~isnan(dir_alignment(r)) /\ dir_alignment(r) <= cfg.alignment_threshold
    THEN 1 ELSE 0

\* (df['dir_alignment'] < alignment_threshold).astype(int)
good_dir_alignment(r, cfg) ==
    IF ~isnan(dir_alignment(r)) /\ dir_alignment(r) < cfg.alignment_threshold
    THEN 1 ELSE 0

directional_columns ==
    {"angle_to_ball", "dir_alignment", "orient_alignment", "body_control",
     "avg_dir_alignment", "avg_orient_alignment", "avg_body_control",
     "good_dir_alignment", "pct_good_dir_alignment"}

directional_value(g, k, c, cfg) ==
    CASE c = "angle_to_ball" -> angle_to_ball(g[k])
      [] c = "dir_alignment" -> dir_alignment(g[k])
      [] c = "orient_alignment" -> orient_alignment(g[k])
      [] c = "body_control" -> body_control(g[k])
      [] c = "avg_dir_alignment" -> mean([n \in 1..Len(g) |-> dir_alignment(g[n])])
      [] c = "avg_orient_alignment" ->
            mean([n \in 1..Len(g) |-> orient_alignment(g[n])])
      [] c = "avg_body_control" -> mean([n \in 1..Len(g) |-> body_control(g[n])])
      [] c = "good_dir_alignment" -> good_dir_alignment(g[k], cfg)
      [] c = "pct_good_dir_alignment" ->
            mean([n \in 1..Len(g) |-> good_dir_alignment(g[n], cfg)])

engineer_directional_features(table, cfg) ==
    WithColumns(table,
        LAMBDA i : [c \in directional_columns |->
                       directional_value(group_rows(table, group_key(table[i])),
                                         group_position(table, i), c, cfg)])

\* df = engineer_spatial_features(df, config, logger)
EngineerSpatial ==
    /\ config # <<>>
    /\ ~Applied("spatial") /\ ~PlayLevelDone
    /\ "x" \in columns(df)
    /\ df' = engineer_spatial_features(df, config)
    /\ stages' = Append(stages, "spatial")
    /\ UNCHANGED <<config, play_level_df>>
    /\ UNCHANGED angVars
    /\ UNCHANGED mainVars
    /\ UNCHANGED sepVars
    /\ UNCHANGED valVars

\* df = engineer_directional_features(df, config, logger)
EngineerDirectional ==
    /\ config # <<>>
    /\ ~Applied("directional") /\ ~PlayLevelDone
    /\ "dir" \in columns(df)
    /\ df' = engineer_directional_features(df, config)
    /\ stages' = Append(stages, "directional")
    /\ UNCHANGED <<config, play_level_df>>
    /\ UNCHANGED angVars
    /\ UNCHANGED mainVars
    /\ UNCHANGED sepVars
    /\ UNCHANGED valVars

-----------------------------------------------------------------------------
(* Inputs of the spatial and directional stages *)

\* where a player is in a frame and where the player moves and faces: on the
\* line y = 0 towards and past the ball landing point (5, 0), on it, and
\* beside it at the edge of the sideline margin; dir is missing in one
Poses ==
    {[x |-> 0, y |-> 0, dir |-> 0, o |-> 0],
     [x |-> 1, y |-> 0, dir |-> 30, o |-> 350],
     [x |-> 2, y |-> 0, dir |-> 350, o |-> 10],
     [x |-> 5, y |-> 0, dir |-> NaN, o |-> 180],
     [x |-> 9, y |-> 0, dir |-> 170, o |-> 190],
     [x |-> 5, y |-> 10, dir |-> 270, o |-> 90]}

\* a frame row with its raw columns
PoseRow(key, f, pose) ==
    [game_id |-> key[1], play_id |-> key[2], nfl_id |-> key[3], frame_id |-> f,
     x |-> pose.x, y |-> pose.y, s |-> 2 * f + key[2], a |-> 9 - f - key[1],
     dir |-> pose.dir, o |-> pose.o,
     ball_land_x |-> 5, ball_land_y |-> 0, absolute_yardline_number |-> 3]

\* the rows of a group, ascending by frame, from a function frame -> pose
RECURSIVE PoseRowsOf(_, _)
PoseRowsOf(key, poses) ==
    IF DOMAIN poses = {} THEN <<>>
    ELSE LET f == SetMax(DOMAIN poses)
         IN Append(PoseRowsOf(key, [g \in DOMAIN poses \ {f} |-> poses[g]]),
                   PoseRow(key, f, poses[f]))

\* the functions from a set of frames to the poses
FramePoses == UNION {[F -> Poses] : F \in SUBSET (1..MaxFrames)}

\* the poses of the second player: two frames beside the ball, at the edge
\* of the hash band and at the edge of the far sideline margin
OtherPoses ==
    [f \in 1..2 |-> IF f = 1 THEN [x |-> 5, y |-> 24, dir |-> 270, o |-> 90]
                    ELSE [x |-> 5, y |-> 44, dir |-> 170, o |-> 190]]

\* the configurations: two alignment thresholds
GeometryConfigs ==
    [speed_metrics : {{"mean", "max", "min", "std"}},
     acceleration_metrics : {{"mean", "max", "min", "std"}},
     calculate_at_throw_moment : {TRUE},
     min_frames_for_reaction : {2},
     reaction_speed_threshold : {0},
     field_width : {54},
     hash_width : {6},
     alignment_threshold : {10, 30}]

\* two players of one play: one with any frames and poses, one with two frames
GeometryInit ==
    /\ \E p1 \in FramePoses, order \in {"ascending", "reversed"} :
          df = Reorder(PoseRowsOf(<<1, 1, 11>>, p1)
                       \o PoseRowsOf(<<1, 1, 21>>, OtherPoses),
                       order)
    /\ config \in GeometryConfigs
    /\ stages = <<>>
    /\ play_level_df = <<>>
    /\ angle1 = <<>>
    /\ angle2 = <<>>
    /\ angular_difference = <<>>
    /\ merged_file = [exists |-> FALSE, rows |-> <<>>]
    /\ error_log = <<>>
    /\ raised = ""
    /\ saved = <<>>
    /\ input_df = [columns |-> <<>>, rows |-> <<>>]
    /\ arguments = <<>>
    /\ missing = <<>>
    /\ validation = <<>>
    /\ tracking_df = <<>>
    /\ supp_df = <<>>
    /\ idx = 0
    /\ results = <<>>
    /\ outcomes = <<>>
    /\ sep_done = TRUE

GeometryNext ==
    \/ EngineerSpatial
    \/ EngineerDirectional
    \/ EngineerTemporal

GeometrySpec == GeometryInit /\ [][GeometryNext]_vars


-----------------------------------------------------------------------------
(* engineer_post_throw_features and main *)

post_throw_columns ==
    {"post_throw_distance", "final_proximity_to_ball",
     "initial_post_proximity_to_ball", "convergence_distance"}

post_throw_value(r, c) ==
    LET initial == calculate_distance(r.x_post_first, r.y_post_first,
                                      r.ball_land_x, r.ball_land_y)
        final == calculate_distance(r.x_post_last, r.y_post_last,
                                    r.ball_land_x, r.ball_land_y)
    IN CASE c = "post_throw_distance" ->
               calculate_distance(r.x_post_first, r.y_post_first,
                                  r.x_post_last, r.y_post_last)
         [] c = "final_proximity_to_ball" -> final
         [] c = "initial_post_proximity_to_ball" -> initial
         [] c = "convergence_distance" -> initial - final

\* the post-throw columns when the table has the post-throw positions, the
\* table as it is (and a warning) when it has not
engineer_post_throw_features(table) ==
    IF {"x_post_first", "x_post_last"} \subseteq columns(table)
    THEN WithColumns(table,
             LAMBDA i : [c \in post_throw_columns |-> post_throw_value(table[i], c)])
    ELSE table

\* the order in which main runs its steps
MainOrder ==
    <<"load", "spatial", "kinematic", "directional", "temporal", "post_throw",
      "play_level", "save">>

group_columns == {"game_id", "play_id", "nfl_id"}

\* the columns a step reads by name: a KeyError when one is not in the table
columns_read(stage, cfg, table) ==
    CASE stage = "spatial" ->
            {"x", "y", "ball_land_x", "ball_land_y", "absolute_yardline_number"}
      [] stage = "kinematic" ->
            group_columns
            \cup (IF speed_columns(cfg) # {} THEN {"s"} ELSE {})
            \cup (IF accel_columns(cfg) # {} THEN {"a"} ELSE {})
            \cup (IF cfg.calculate_at_throw_moment THEN {"frame_id", "s", "a"} ELSE {})
      [] stage = "directional" ->
            group_columns \cup {"x", "y", "ball_land_x", "ball_land_y", "dir", "o"}
      [] stage = "temporal" ->
            group_columns \cup {"frame_id", "dist_to_ball_landing"}
      [] stage = "post_throw" ->
            IF {"x_post_first", "x_post_last"} \subseteq columns(table)
            THEN {"y_post_first", "y_post_last", "ball_land_x", "ball_land_y"}
            ELSE {}
      [] stage = "play_level" -> group_columns

\* main is inside its try block, about to run the step after those done
MainAt(stage) ==
    /\ raised = ""
    /\ Len(stages) < Len(MainOrder)
    /\ stages = SubSeq(MainOrder, 1, Len(stages))
    /\ MainOrder[Len(stages) + 1] = stage

\* df = pd.read_csv(input_path)
MainLoad ==
    /\ MainAt("load")
    /\ merged_file.exists
    /\ df' = merged_file.rows
    /\ stages' = Append(stages, "load")
    /\ UNCHANGED <<config, play_level_df, merged_file, error_log, raised, saved>>
    /\ UNCHANGED angVars
    /\ UNCHANGED sepVars
    /\ UNCHANGED valVars

\* a variant of MainRaise that logs the exception and goes on to the next step
MainRaiseSwallowed ==
    /\ raised = ""
    /\ Len(stages) < Len(MainOrder)
    /\ stages = SubSeq(MainOrder, 1, Len(stages))
    /\ IF stages = <<>> THEN ~merged_file.exists
       ELSE /\ MainOrder[Len(stages) + 1] # "save"
            /\ ~(columns_read(MainOrder[Len(stages) + 1], config, df)
                    \subseteq columns(df))
    /\ error_log' = Append(error_log, IF stages = <<>> THEN "FileNotFoundError"
                                      ELSE "KeyError")
    /\ stages' = Append(stages, MainOrder[Len(stages) + 1])
    /\ UNCHANGED <<df, config, play_level_df, merged_file, raised, saved>>
    /\ UNCHANGED angVars
    /\ UNCHANGED sepVars
    /\ UNCHANGED valVars

\* the step main is about to run raises (the file is not there, or a column
\* the step reads is not in the table): the except block logs the exception
\* and re-raises it; the table the step was working on is lost with the frame
MainRaise ==
    /\ raised = ""
    /\ Len(stages) < Len(MainOrder)
    /\ stages = SubSeq(MainOrder, 1, Len(stages))
    /\ IF stages = <<>> THEN ~merged_file.exists
       ELSE /\ MainOrder[Len(stages) + 1] # "save"
            /\ ~(columns_read(MainOrder[Len(stages) + 1], config, df)
                    \subseteq columns(df))
    /\ error_log' = Append(error_log, IF stages = <<>> THEN "FileNotFoundError"
                                      ELSE "KeyError")
    /\ raised' = IF stages = <<>> THEN "FileNotFoundError" ELSE "KeyError"
    /\ UNCHANGED <<df, config, stages, play_level_df, merged_file, saved>>
    /\ UNCHANGED angVars
    /\ UNCHANGED sepVars
    /\ UNCHANGED valVars

\* df = engineer_spatial_features(df, config, logger)
MainSpatial ==
    /\ MainAt("spatial")
    /\ columns_read("spatial", config, df) \subseteq columns(df)
    /\ df' = engineer_spatial_features(df, config)
    /\ stages' = Append(stages, "spatial")
    /\ UNCHANGED <<config, play_level_df, merged_file, error_log, raised, saved>>
    /\ UNCHANGED angVars
    /\ UNCHANGED sepVars
    /\ UNCHANGED valVars

\* df = engineer_kinematic_features(df, config, logger)
MainKinematic ==
    /\ MainAt("kinematic")
    /\ columns_read("kinematic", config, df) \subseteq columns(df)
    /\ df' = engineer_kinematic_features(df, config)
    /\ stages' = Append(stages, "kinematic")
    /\ UNCHANGED <<config, play_level_df, merged_file, error_log, raised, saved>>
    /\ UNCHANGED angVars
    /\ UNCHANGED sepVars
    /\ UNCHANGED valVars

\* df = engineer_directional_features(df, config, logger)
MainDirectional ==
    /\ MainAt("directional")
    /\ columns_read("directional", config, df) \subseteq columns(df)
    /\ df' = engineer_directional_features(df, config)
    /\ stages' = Append(stages, "directional")
    /\ UNCHANGED <<config, play_level_df, merged_file, error_log, raised, saved>>
    /\ UNCHANGED angVars
    /\ UNCHANGED sepVars
    /\ UNCHANGED valVars

\* df = engineer_temporal_features(df, config, logger)
MainTemporal ==
    /\ MainAt("temporal")
    /\ columns_read("temporal", config, df) \subseteq columns(df)
    /\ df' = engineer_temporal_features(df, config)
    /\ stages' = Append(stages, "temporal")
    /\ UNCHANGED <<config, play_level_df, merged_file, error_log, raised, saved>>
    /\ UNCHANGED angVars
    /\ UNCHANGED sepVars
    /\ UNCHANGED valVars

\* df = engineer_post_throw_features(df, config, logger)
MainPostThrow ==
    /\ MainAt("post_throw")
    /\ columns_read("post_throw", config, df) \subseteq columns(df)
    /\ df' = engineer_post_throw_features(df)
    /\ stages' = Append(stages, "post_throw")
    /\ UNCHANGED <<config, play_level_df, merged_file, error_log, raised, saved>>
    /\ UNCHANGED angVars
    /\ UNCHANGED sepVars
    /\ UNCHANGED valVars

\* play_level_df = create_play_level_dataset(df, config, logger)
MainPlayLevel ==
    /\ MainAt("play_level")
    /\ columns_read("play_level", config, df) \subseteq columns(df)
    /\ play_level_df' = create_play_level_dataset(df)
    /\ stages' = Append(stages, "play_level")
    /\ UNCHANGED <<df, config, merged_file, error_log, raised, saved>>
    /\ UNCHANGED angVars
    /\ UNCHANGED sepVars
    /\ UNCHANGED valVars

\* save_engineered_data(play_level_df, config, logger)
MainSave ==
    /\ MainAt("save")
    /\ saved' = Append(saved, play_level_df)
    /\ stages' = Append(stages, "save")
    /\ UNCHANGED <<df, config, play_level_df, merged_file, error_log, raised>>
    /\ UNCHANGED angVars
    /\ UNCHANGED sepVars
    /\ UNCHANGED valVars

-----------------------------------------------------------------------------
(* Inputs of main *)

\* the first player of the merged file has frames among 1..MaxMainFrames
MaxMainFrames == 2

\* poses before, past and beside the ball landing point
MainPoses ==
    {[x |-> 1, y |-> 0, dir |-> 30, o |-> 350],
     [x |-> 9, y |-> 0, dir |-> 170, o |-> 190],
     [x |-> 5, y |-> 10, dir |-> 270, o |-> 90]}

MainFramePoses == UNION {[F -> MainPoses] : F \in SUBSET (1..MaxMainFrames)}

\* the post-throw positions of a player, the same in each of its rows
PostThrowOf(r) ==
    [x_post_first |-> 2, y_post_first |-> 4,
     x_post_last |-> IF r.nfl_id = 11 THEN 5 ELSE 2,
     y_post_last |-> IF r.nfl_id = 11 THEN 8 ELSE 0]

\* the merged file with or without the post-throw positions
WithPostThrow(table, post) ==
    IF post THEN [i \in 1..Len(table) |-> PostThrowOf(table[i]) @@ table[i]]
    ELSE table

\* the merged file without one of its columns
Without(table, dropped) ==
    [i \in 1..Len(table) |->
        [c \in (DOMAIN table[i]) \ {dropped} |-> table[i][c]]]

\* the columns one of which the merged file may lack ("" for none)
Droppable == {"", "x", "s", "dir", "frame_id", "y_post_last"}

MainConfigs ==
    [speed_metrics : {{"mean", "max", "min", "std"}},
     acceleration_metrics : {{"mean", "max", "min", "std"}},
     calculate_at_throw_moment : {TRUE, FALSE},
     min_frames_for_reaction : {2},
     reaction_speed_threshold : {0},
     field_width : {54},
     hash_width : {6},
     alignment_threshold : {10}]

\* the merged file is missing, or holds the frames of two players of one play
MainInit ==
    /\ \/ merged_file = [exists |-> FALSE, rows |-> <<>>]
       \/ \E p1 \in MainFramePoses, order \in {"ascending", "reversed"},
             post \in BOOLEAN, dropped \in Droppable :
             merged_file =
                [exists |-> TRUE,
                 rows |-> Without(
                            WithPostThrow(
                              Reorder(PoseRowsOf(<<1, 1, 11>>, p1)
                                      \o PoseRowsOf(<<1, 1, 21>>, OtherPoses),
                                      order),
                              post),
                            dropped)]
    /\ config \in MainConfigs
    /\ df = <<>>
    /\ stages = <<>>
    /\ play_level_df = <<>>
    /\ error_log = <<>>
    /\ raised = ""
    /\ saved = <<>>
    /\ input_df = [columns |-> <<>>, rows |-> <<>>]
    /\ arguments = <<>>
    /\ missing = <<>>
    /\ validation = <<>>
    /\ angle1 = <<>>
    /\ angle2 = <<>>
    /\ angular_difference = <<>>
    /\ tracking_df = <<>>
    /\ supp_df = <<>>
    /\ idx = 0
    /\ results = <<>>
    /\ outcomes = <<>>
    /\ sep_done = TRUE

MainNext ==
    \/ MainLoad
    \/ MainRaise
    \/ MainSpatial
    \/ MainKinematic
    \/ MainDirectional
    \/ MainTemporal
    \/ MainPostThrow
    \/ MainPlayLevel
    \/ MainSave

MainSpec == MainInit /\ [][MainNext]_vars

-----------------------------------------------------------------------------
(* The words of the claims about the spatial and directional stages *)

\* the group of the scenario: three frames at x = 0, 1, 2 and y = 0, with the
\* ball landing at (5, 0)
IsScenario(G) ==
    /\ Cardinality(G) = 3
    /\ \A q \in G : /\ q.frame_id \in 1..3
                    /\ q.x = q.frame_id - 1
                    /\ q.y = 0
                    /\ q.ball_land_x = 5 /\ q.ball_land_y = 0

\* what the scenario yields on one row
ScenarioRow(q) ==
    /\ q.dist_to_ball_landing = 5 - q.x
    /\ q.initial_dist_to_ball = 5
    /\ q.min_dist_to_ball = 3
    /\ ~isnan(q.avg_closing_rate)
    /\ q.avg_closing_rate > 0
    /\ q.avg_closing_rate = Scale * 1

\* C14: for one player in one play with three frames at x = 0, 1, 2, y = 0
\* and the ball landing at (5, 0), engineer_spatial_features followed by
\* engineer_temporal_features yields dist_to_ball_landing = 5, 4, 3,
\* initial_dist_to_ball = 5, min_dist_to_ball = 3 and avg_closing_rate = 1 > 0
\* on every row.
C14_EndToEndScenario ==
    (Applied("spatial") /\ Applied("temporal")) =>
        \A r \in Range(df) :
            IsScenario(GroupOf(r)) => \A q \in GroupOf(r) : ScenarioRow(q)

\* both stages applied to a table that holds the scenario's group, with the
\* distances 5, 4, 3 at the frames 1, 2, 3
C14_Witness ==
    /\ Applied("spatial") /\ Applied("temporal")
    /\ \E r \in Range(df) :
          /\ IsScenario(GroupOf(r))
          /\ \A q \in GroupOf(r) : ScenarioRow(q)
          /\ {<<q.frame_id, q.dist_to_ball_landing>> : q \in GroupOf(r)}
                = {<<1, 5>>, <<2, 4>>, <<3, 3>>}

\* the frames of a row's group whose dir_alignment is strictly below the
\* configured threshold
Aligned(r) ==
    {q \in GroupOf(r) : /\ ~isnan(q.dir_alignment)
                        /\ q.dir_alignment < config.alignment_threshold}

\* C20: after engineer_directional_features, pct_good_dir_alignment is on
\* every row of a group the number of the group's frames with dir_alignment
\* strictly below alignment_threshold divided by the number of its frames,
\* within [0, 1]; a frame whose dir_alignment equals the threshold or is NaN
\* is not aligned and counts in the denominator.
C20_ShareOfAlignedFrames ==
    Applied("directional") =>
        \A r \in Range(df) :
            /\ ~isnan(r.pct_good_dir_alignment)
            /\ r.pct_good_dir_alignment * Cardinality(GroupOf(r))
                  = Scale * Cardinality(Aligned(r))
            /\ r.pct_good_dir_alignment >= 0
            /\ r.pct_good_dir_alignment <= Scale * 1

\* a group of three frames: one aligned, one with dir_alignment equal to the
\* threshold and one with dir_alignment NaN; its share is one third
C20_Witness ==
    /\ Applied("directional")
    /\ \E r \in Range(df) :
          /\ Cardinality(GroupOf(r)) = 3
          /\ Cardinality(Aligned(r)) = 1
          /\ \E q \in GroupOf(r) : q.dir_alignment = config.alignment_threshold
          /\ \E q \in GroupOf(r) : isnan(q.dir_alignment)
          /\ 3 * r.pct_good_dir_alignment = Scale

-----------------------------------------------------------------------------
(* Further words of the claims about find_nearest_defender *)

\* a supplementary row carries a route designation
HasRoute(row) ==
    /\ row.route_of_targeted_receiver # NA
    /\ row.route_of_targeted_receiver # ""

\* the supplementary rows of a play
SuppRowsOf(game_id, play_id) ==
    {k \in 1..Len(supp_df) : /\ supp_df[k].game_id = game_id
                             /\ supp_df[k].play_id = play_id}

\* C25: every record of find_nearest_defender belongs to a play with a
\* supplementary row whose route_of_targeted_receiver is neither null nor
\* empty, and carries that row's route; a play whose supplementary rows all
\* have a null or empty route has no record, whatever its tracking rows.
C25_OnlyPlaysWithRoute ==
    /\ \A i \in 1..Len(results) :
          \E k \in SuppRowsOf(results[i].game_id, results[i].play_id) :
              /\ HasRoute(supp_df[k])
              /\ results[i].route = supp_df[k].route_of_targeted_receiver
    /\ \A key \in PlayKeys :
          (\A k \in SuppRowsOf(key[1], key[2]) : ~HasRoute(supp_df[k]))
              => \A i \in 1..Len(results) :
                    ~(results[i].game_id = key[1] /\ results[i].play_id = key[2])

\* the run has returned; a play with an empty route has no record although
\* its tracking rows would give one, and another game's play has a record
\* with its own route
C25_Witness ==
    /\ sep_done
    /\ \E k \in 1..Len(supp_df) :
          /\ supp_df[k].route_of_targeted_receiver = ""
          /\ play_branch(play_data(tracking_df, supp_df[k].game_id,
                                   supp_df[k].play_id)) = "record"
          /\ \A i \in 1..Len(results) :
                ~(/\ results[i].game_id = supp_df[k].game_id
                  /\ results[i].play_id = supp_df[k].play_id)
    /\ \E i \in 1..Len(results) :
          /\ results[i].route = "SLANT"
          /\ results[i].game_id = 2

\* the allow-listed Offense-side players with at least two rows that share
\* the greatest displacement of a play
TiedPlayers(S) ==
    {p \in MovingSkillPlayers(S) :
        \A o \in MovingSkillPlayers(S) : DisplacementSq(S, p) >= DisplacementSq(S, o)}

\* the position in a table of a player's first row of a play
FirstRowIn(table, game_id, play_id, nfl_id) ==
    SetMin({i \in 1..Len(table) : /\ table[i].game_id = game_id
                                  /\ table[i].play_id = play_id
                                  /\ table[i].nfl_id = nfl_id})

\* the tied player met first in a table
FirstMet(table, game_id, play_id, T) ==
    CHOOSE p \in T :
        \A o \in T : FirstRowIn(table, game_id, play_id, p)
                        <= FirstRowIn(table, game_id, play_id, o)

\* the receiver find_nearest_defender selects for a play of a table
ReceiverChosen(table, game_id, play_id) ==
    target_player(player_displacements(
        offensive_players(play_data(table, game_id, play_id)))).nfl_id

\* C26 as stated: when several allow-listed Offense-side players of a play
\* share the greatest displacement, the receiver is the tied player whose
\* first row comes earliest among the play's tracking rows; for the same rows
\* in another order (here: reversed) it is the tied player met first in that
\* order.
C26_FirstEncounteredStated ==
    \A i \in 1..Len(results) :
        LET rec == results[i]
            T == FarthestSkillPlayers(RecordPlay(rec))
        IN /\ rec.receiver_nfl_id
                 = FirstMet(tracking_df, rec.game_id, rec.play_id, T)
           /\ ReceiverChosen(Reverse(tracking_df), rec.game_id, rec.play_id)
                 = FirstMet(Reverse(tracking_df), rec.game_id, rec.play_id, T)

\* C26 (amended): when several allow-listed Offense-side players with at
\* least two tracking rows share the greatest displacement among such
\* players, the receiver is the tied player whose first row comes earliest
\* among the play's tracking rows; for the same rows in another order (here:
\* reversed) it is the tied player met first in that order. A player with a
\* single row is never the receiver.
C26_FirstEncounteredWins ==
    \A i \in 1..Len(results) :
        LET rec == results[i]
            T == TiedPlayers(RecordPlay(rec))
        IN /\ rec.receiver_nfl_id
                 = FirstMet(tracking_df, rec.game_id, rec.play_id, T)
           /\ ReceiverChosen(Reverse(tracking_df), rec.game_id, rec.play_id)
                 = FirstMet(Reverse(tracking_df), rec.game_id, rec.play_id, T)
           /\ rec.receiver_nfl_id \in MovingSkillPlayers(RecordPlay(rec))

\* a record of a play in which the wide receiver and the running back are
\* tied: the running back, met first, is the receiver, and the wide receiver
\* is the one chosen from the same rows reversed
C26_Witness ==
    \E i \in 1..Len(results) :
        LET rec == results[i]
        IN /\ TiedPlayers(RecordPlay(rec)) = {11, 12}
           /\ rec.receiver_nfl_id = 12
           /\ FirstRowIn(tracking_df, rec.game_id, rec.play_id, 12)
                 < FirstRowIn(tracking_df, rec.game_id, rec.play_id, 11)
           /\ ReceiverChosen(Reverse(tracking_df), rec.game_id, rec.play_id) = 11

\* the Defense-side rows at the last frame of a record's play
DefendersAtThrow(rec) == DefenseAt(RecordPlay(rec), LastFrameOf(RecordPlay(rec)))

\* C30: every record is consistent with its play: the receiver is an
\* Offense-side player of the play; the nearest defender is a Defense-side
\* player at throw_frame_id whose distance to (receiver_x, receiver_y) is
\* separation_at_throw; throw_frame_id is the play's greatest frame_id;
\* separation_at_throw >= 0; 0 <= defenders_within_3yd <= defenders_within_5yd
\* <= the number of defenders at the throw frame; and a count is at least 1
\* exactly when separation_at_throw is within its radius.
C30_RecordConsistent ==
    \A i \in 1..Len(results) :
        LET rec == results[i]
            S == RecordPlay(rec)
        IN /\ \E r \in S : r.nfl_id = rec.receiver_nfl_id /\ r.player_side = "Offense"
           /\ rec.throw_frame_id = LastFrameOf(S)
           /\ \E d \in S :
                 /\ d.nfl_id = rec.nearest_defender_id
                 /\ d.player_side = "Defense"
                 /\ d.frame_id = rec.throw_frame_id
                 /\ SqDistTo(d, rec.receiver_x, rec.receiver_y)
                       = rec.separation_at_throw * rec.separation_at_throw
           /\ rec.separation_at_throw >= 0
           /\ 0 <= rec.defenders_within_3yd
           /\ rec.defenders_within_3yd <= rec.defenders_within_5yd
           /\ rec.defenders_within_5yd <= Cardinality(DefendersAtThrow(rec))
           /\ rec.defenders_within_3yd >= 1 <=> rec.separation_at_throw <= 3
           /\ rec.defenders_within_5yd >= 1 <=> rec.separation_at_throw <= 5

\* a record of a play with two defenders at the throw frame, the second of
\* the table the nearer: one within 3 yards, both within 5
C30_Witness ==
    \E i \in 1..Len(results) :
        LET rec == results[i]
        IN /\ Cardinality(DefendersAtThrow(rec)) = 2
           /\ rec.nearest_defender_id = 22
           /\ FirstRowIn(tracking_df, rec.game_id, rec.play_id, 21)
                 < FirstRowIn(tracking_df, rec.game_id, rec.play_id, 22)
           /\ rec.separation_at_throw = 3
           /\ rec.defenders_within_3yd = 1
           /\ rec.defenders_within_5yd = 2

\* twice the distance of a row from the middle of the field
TwiceOffCentre(r) == Apart(2 * r.y, config.field_width)

\* near_hash of a row as the claim has it: within half the hash width of the
\* middle, the boundary included
NearHashStated(r) ==
    r.near_hash = IF TwiceOffCentre(r) <= config.hash_width THEN 1 ELSE 0

\* C21: engineer_spatial_features sets near_hash = 1 exactly when
\* |y - field_width/2| <= hash_width/2 and near_sideline = 1 exactly when
\* y <= 10 or y >= field_width - 10, each from the row's own y.
C21_NearHashNearSideline ==
    Applied("spatial") =>
        \A r \in Range(df) :
            /\ NearHashStated(r)
            /\ r.near_sideline =
                  IF r.y <= 10 \/ r.y >= config.field_width - 10 THEN 1 ELSE 0

\* near_sideline with both edges of the margin left out
C21_SidelineMarginOpen ==
    Applied("spatial") =>
        \A r \in Range(df) :
            /\ NearHashStated(r)
            /\ r.near_sideline =
                  IF r.y < 10 \/ r.y > config.field_width - 10 THEN 1 ELSE 0

-----------------------------------------------------------------------------
(* src/data/validators.py: check_missing_values and validate_data.         *)
(* A DataFrame is its column names in order and its rows in order; a       *)
(* Series is a sequence of (column, value) entries; a proportion is held   *)
(* as a multiple of 1/Scale.                                               *)

\* df.isnull().sum() of one column
isnull_sum(fr, c) == Cardinality({i \in 1..Len(fr.rows) : isnan(fr.rows[i][c])})

\* df.isnull().sum() / len(df) of one column: 0 / 0 is NaN
missing_proportion(fr, c) ==
    IF Len(fr.rows) = 0 THEN NaN
    ELSE (Scale * isnull_sum(fr, c)) \div Len(fr.rows)

\* a variant of above that includes the threshold
above_or_equal(v, threshold) == ~isnan(v) /\ v >= threshold

\* missing > threshold: a NaN is greater than nothing
above(v, threshold) == ~isnan(v) /\ v > threshold

\* Series.sort_values(ascending=False): equal values stay in the order given
RECURSIVE sort_values_descending(_)
sort_values_descending(series) ==
    IF series = <<>> THEN <<>>
    ELSE LET k == CHOOSE i \in 1..Len(series) :
                     /\ \A j \in 1..Len(series) : series[j].value <= series[i].value
                     /\ \A j \in 1..(i - 1) : series[j].value < series[i].value
         IN <<series[k]>>
            \o sort_values_descending(SubSeq(series, 1, k - 1)
                                      \o SubSeq(series, k + 1, Len(series)))

check_missing_values(fr, threshold) ==
    LET proportions == [k \in 1..Len(fr.columns) |->
                           [column |-> fr.columns[k],
                            value |-> missing_proportion(fr, fr.columns[k])]]
        over(e) == above(e.value, threshold)
    IN sort_values_descending(SelectSeq(proportions, over))

\* df.duplicated().sum(): the rows equal to an earlier row
duplicated_sum(fr) ==
    Cardinality({i \in 1..Len(fr.rows) : \E j \in 1..(i - 1) : fr.rows[j] = fr.rows[i]})

\* set(required_columns) - set(df.columns); required_columns is <<>> for None
\* and <<the columns>> for a list
missing_cols(fr, required_columns) ==
    IF required_columns = <<>> THEN {}
    ELSE required_columns[1] \ {fr.columns[k] : k \in 1..Len(fr.columns)}

\* the issues in the order they are appended
validate_issues(fr, required_columns, check_duplicates, check_missing, missing_threshold) ==
    (IF missing_cols(fr, required_columns) # {}
     THEN <<[issue |-> "Missing required columns",
             of |-> missing_cols(fr, required_columns)]>>
     ELSE <<>>)
    \o (IF check_duplicates /\ duplicated_sum(fr) > 0
        THEN <<[issue |-> "Found duplicate rows", of |-> duplicated_sum(fr)]>>
        ELSE <<>>)
    \o (IF check_missing /\ Len(check_missing_values(fr, missing_threshold)) > 0
        THEN <<[issue |-> "Found missing values in columns",
                of |-> Len(check_missing_values(fr, missing_threshold))]>>
        ELSE <<>>)

\* the dict returned: 'valid' is written by the required-columns check only;
\* 'duplicate_count' and 'missing_values' are set by the checks that ran
validate_data(fr, required_columns, check_duplicates, check_missing, missing_threshold) ==
    LET is_valid == missing_cols(fr, required_columns) = {}
        issues == validate_issues(fr, required_columns, check_duplicates,
                                  check_missing, missing_threshold)
        dup_count == duplicated_sum(fr)
        found == check_missing_values(fr, missing_threshold)
    IN CASE check_duplicates /\ check_missing ->
               [valid |-> is_valid, issues |-> issues, duplicate_count |-> dup_count,
                missing_values |-> found]
         [] check_duplicates /\ ~check_missing ->
               [valid |-> is_valid, issues |-> issues, duplicate_count |-> dup_count]
         [] ~check_duplicates /\ check_missing ->
               [valid |-> is_valid, issues |-> issues, missing_values |-> found]
         [] OTHER -> [valid |-> is_valid, issues |-> issues]

\* missing = check_missing_values(input_df, threshold)
CheckMissingValues ==
    /\ arguments # <<>>
    /\ missing = <<>>
    /\ missing' = <<check_missing_values(input_df, arguments.threshold)>>
    /\ UNCHANGED <<input_df, arguments, validation>>
    /\ UNCHANGED <<df, config, stages, play_level_df>>
    /\ UNCHANGED angVars
    /\ UNCHANGED mainVars
    /\ UNCHANGED sepVars

\* results = validate_data(input_df, required_columns, check_duplicates,
\*                         check_missing, missing_threshold)
ValidateData ==
    /\ arguments # <<>>
    /\ validation = <<>>
    /\ validation' = <<validate_data(input_df, arguments.required_columns,
                                     arguments.check_duplicates,
                                     arguments.check_missing,
                                     arguments.threshold)>>
    /\ UNCHANGED <<input_df, arguments, missing>>
    /\ UNCHANGED <<df, config, stages, play_level_df>>
    /\ UNCHANGED angVars
    /\ UNCHANGED mainVars
    /\ UNCHANGED sepVars

-----------------------------------------------------------------------------
(* Inputs of the validators *)

\* a DataFrame given to the validators has at most MaxRows rows
MaxRows == 3

\* the column lists: three columns, and two of them in another order
ColumnLists == {<<"id", "col1", "col2">>, <<"col2", "id">>}

\* the cells of a column: id is never missing
Cells(c) == IF c = "id" THEN {1, 2} ELSE {1, NaN}

RowsOver(cols) ==
    LET names == {cols[k] : k \in 1..Len(cols)}
    IN {r \in [names -> {1, 2, NaN}] : \A c \in names : r[c] \in Cells(c)}

DataFrames ==
    UNION {{[columns |-> cols, rows |-> rows] :
               rows \in UNION {[1..n -> RowsOver(cols)] : n \in 0..MaxRows}} :
           cols \in ColumnLists}

\* thresholds 0, 1/3 and 1/2; no required columns, present ones, an absent one
Arguments ==
    [threshold : {0, Scale \div 3, Scale \div 2},
     required_columns : {<<>>, <<{"id", "col2"}>>, <<{"id", "missing_col"}>>},
     check_duplicates : BOOLEAN,
     check_missing : BOOLEAN]

ValidatorInit ==
    /\ input_df \in DataFrames
    /\ arguments \in Arguments
    /\ missing = <<>>
    /\ validation = <<>>
    /\ df = <<>>
    /\ config = <<>>
    /\ stages = <<>>
    /\ play_level_df = <<>>
    /\ angle1 = <<>>
    /\ angle2 = <<>>
    /\ angular_difference = <<>>
    /\ merged_file = [exists |-> FALSE, rows |-> <<>>]
    /\ error_log = <<>>
    /\ raised = ""
    /\ saved = <<>>
    /\ tracking_df = <<>>
    /\ supp_df = <<>>
    /\ idx = 0
    /\ results = <<>>
    /\ outcomes = <<>>
    /\ sep_done = TRUE

ValidatorNext ==
    \/ CheckMissingValues
    \/ ValidateData

ValidatorSpec == ValidatorInit /\ [][ValidatorNext]_vars

-----------------------------------------------------------------------------
(* The words of the claims about main and about the stages as a whole *)

\* the step main would run next cannot run: the file is not there, or a
\* column the step reads is not in the table
NextStepFails ==
    /\ Len(stages) < Len(MainOrder)
    /\ IF stages = <<>> THEN ~merged_file.exists
       ELSE ~(columns_read(MainOrder[Len(stages) + 1], config, df)
                \subseteq columns(df))

\* a row without the columns a stage added to it
Before(r, cols) == [c \in cols |-> r[c]]

\* how many rows of a table are the row r on the columns cols
Copies(table, r, cols) ==
    Cardinality({i \in 1..Len(table) : Before(table[i], cols) = r})

FeatureStages == {"spatial", "kinematic", "directional", "temporal"}

\* C22: in main a step that fails (the input file is missing, a column a
\* feature stage reads is missing) is fatal: the exception is logged once and
\* re-raised, the steps done stop short of the one that failed, and nothing
\* is saved; what is saved is the play-level table, once, after load, spatial,
\* kinematic, directional, temporal, post-throw and play-level have been done
\* in that order without an error.
C22_StageFailureIsFatal ==
    /\ stages = SubSeq(MainOrder, 1, Len(stages))
    /\ error_log # <<>> =>
          /\ raised # ""
          /\ error_log = <<raised>>
          /\ NextStepFails
          /\ ~Applied("save")
          /\ saved = <<>>
    /\ raised # "" => error_log # <<>>
    /\ saved # <<>> =>
          /\ stages = MainOrder
          /\ error_log = <<>>
          /\ saved = <<play_level_df>>
    /\ Applied("save") <=> saved # <<>>

\* C22 happens: the post-throw step failed on a missing column after the four
\* feature stages before it were done, and nothing has been saved
C22_Witness ==
    /\ raised = "KeyError"
    /\ error_log = <<"KeyError">>
    /\ stages = SubSeq(MainOrder, 1, 5)
    /\ play_level_df = <<>>
    /\ saved = <<>>

\* C27: a step of one of the four feature stages keeps the number of rows,
\* keeps every column the table had, and keeps on each row the values of the
\* columns the table had; the temporal stage keeps them up to the order of
\* the rows, the other three row by row.
C27_StagesOnlyAddColumns ==
    [][\A stage \in FeatureStages :
          stages' = Append(stages, stage) =>
             /\ Len(df') = Len(df)
             /\ columns(df) \subseteq columns(df')
             /\ \A i \in 1..Len(df) :
                   Copies(df', df[i], columns(df)) = Copies(df, df[i], columns(df))
             /\ stage # "temporal" =>
                   \A i \in 1..Len(df) : Before(df'[i], columns(df)) = df[i]]_vars

\* C27 happens: the four stages have run on a file given in descending
\* frame order, the table holds the rows of the file in another order, each
\* with its values as they were in the file, among the added columns
C27_Witness ==
    /\ stages = SubSeq(MainOrder, 1, 5)
    /\ Len(df) = Len(merged_file.rows)
    /\ Len(df) > 2
    /\ columns(merged_file.rows) \subseteq columns(df)
    /\ {"dist_to_ball_landing", "avg_speed", "dir_alignment", "closing_rate"}
          \subseteq columns(df)
    /\ \E i \in 1..Len(df) :
          Before(df[i], columns(merged_file.rows)) # merged_file.rows[i]
    /\ \A i \in 1..Len(df) :
          Copies(df, merged_file.rows[i], columns(merged_file.rows)) = 1

-----------------------------------------------------------------------------
(* The words of the claims about the validators *)

ColumnsOf(fr) == {fr.columns[k] : k \in 1..Len(fr.columns)}

\* the columns a Series has an entry for
Reported(series) == {series[k].column : k \in 1..Len(series)}

\* the columns of which more than the share threshold / Scale of the cells
\* are missing
OverShare(fr, threshold) ==
    {c \in ColumnsOf(fr) :
        /\ Len(fr.rows) > 0
        /\ Scale * isnull_sum(fr, c) > threshold * Len(fr.rows)}

\* C23: validate_data returns valid = True exactly when its issues list is
\* empty, that is exactly when no required column is missing, no row is a
\* duplicate (when check_duplicates) and no column has missing values above
\* the threshold (when check_missing).
C23_ValidIffNoIssues ==
    validation # <<>> =>
       /\ validation[1].valid <=> validation[1].issues = <<>>
       /\ validation[1].valid <=>
             /\ arguments.required_columns # <<>> =>
                   arguments.required_columns[1] \subseteq ColumnsOf(input_df)
             /\ arguments.check_duplicates =>
                   \A i, j \in 1..Len(input_df.rows) :
                      i # j => input_df.rows[i] # input_df.rows[j]
             /\ arguments.check_missing =>
                   OverShare(input_df, arguments.threshold) = {}

\* C24: check_missing_values returns one entry for each column whose share of
\* missing cells is strictly greater than the threshold and for no other
\* column (with threshold 0: for the columns with a missing cell), each entry
\* holds the share of its column, and the entries are in descending order of
\* share.
C24_ColumnsAboveThreshold ==
    missing # <<>> =>
       /\ Len(missing[1]) = Cardinality(Reported(missing[1]))
       /\ Reported(missing[1]) = OverShare(input_df, arguments.threshold)
       /\ arguments.threshold = 0 =>
             Reported(missing[1]) =
                {c \in ColumnsOf(input_df) : isnull_sum(input_df, c) > 0}
       /\ \A k \in 1..Len(missing[1]) :
             missing[1][k].value * Len(input_df.rows)
                = Scale * isnull_sum(input_df, missing[1][k].column)
       /\ \A j, k \in 1..Len(missing[1]) :
             j < k => missing[1][j].value >= missing[1][k].value

\* C24 happens: with threshold 0 and three rows, the full column id is left
\* out, and col2 (two cells missing) comes before col1 (one cell missing)
\* although col1 is the earlier column
C24_Witness ==
    /\ input_df.columns = <<"id", "col1", "col2">>
    /\ Len(input_df.rows) = 3
    /\ arguments.threshold = 0
    /\ isnull_sum(input_df, "id") = 0
    /\ missing = <<(<<[column |-> "col2", value |-> 2 * (Scale \div 3)],
                     [column |-> "col1", value |-> Scale \div 3]>>)>>

=============================================================================
